---------------------------- MODULE Spec2Model ----------------------------
(***************************************************************************)
(* Order distribution and availability engine (Afeks/distributeOrder).     *)
(*                                                                         *)
(* The document store is modelled by one variable per collection path.     *)
(* The scheduler (shared/distribute-order.ts, shared/database-helpers.ts)  *)
(* works under the root "Events"; the purchase trigger, the availability   *)
(* reconciler and the notification service work under the root             *)
(* "PosEvents".  Variables prefixed ev live under Events, variables        *)
(* prefixed pe live under PosEvents.                                       *)
(*                                                                         *)
(* An optional numeric field of a document is a sequence: <<>> when the    *)
(* field is absent (undefined), <<n>> when it holds n.  An optional string *)
(* field is "" when absent.                                                *)
(***************************************************************************)
EXTENDS Integers, Sequences, FiniteSets, TLC

VARIABLES
    evPos,            \* Events/{e}/Points-of-Sale: the POS documents, in enumeration order
    evPosItems,       \* Events/{e}/Points-of-Sale/{p}/Items/{i}: "absent" | "on" | "off"
    evOrders,         \* Events/{e}/Points-of-Sale/{p}/Orders/{o}: order documents
    evOrderItems,     \* Events/{e}/Points-of-Sale/{p}/Orders/{o}/Items/{key}
    distributionMode, \* PosEvents/{e}.distributionMode
    servingPointDoc,  \* PosEvents/{e}/Serving-Points/sp1 exists
    purchase,         \* PosEvents/{e}/Orders/{purchaseId}
    purchaseLines,    \* the canonical line items loadPurchaseItems returns for the purchase
    loader,           \* a call of loadPurchaseItems on one purchase-item document
    emailDoc,         \* associations/{a}/emailQueue/{id}: one email queue document
    mailer,           \* invocations of handleEmailDocument
    mailLog,          \* history: deliveries of the create event, SMTP hand-overs, deadlines
    pEvents,          \* change feed of the purchase document: the events written
    deliveries,       \* number of event deliveries so far
    lastSkip,         \* history: the last event an invocation ended on at its guards
    orch,             \* invocations of onPurchaseCreated
    lastPick,         \* history: the last choice distributeItems made
    nPaid,            \* history: number of paid transitions written so far
    pePosItems,       \* PosEvents/{e}/Points-of-Sale/{p}/Items/{i}: "absent" | "on" | "off"
    peItems,          \* PosEvents/{e}/Items/{i}: "absent" | "on" | "off" (isAvailable)
    peOrders,         \* PosEvents/{e}/Points-of-Sale/{p}/Orders/{o}
    peOrderItems,     \* PosEvents/{e}/Points-of-Sale/{p}/Orders/{o}/Items/{key}
    notifications,    \* PosEvents/{e}/Notifications: the documents, in creation order
    iEvents,          \* change feed of the POS item documents: updates not yet delivered
    rec,              \* invocations of onPosItemAvailabilityChanged
    nFlips,           \* history: number of POS item updates written so far
    flipped,          \* history: per POS and item, the number of flips of the flag
    lastTransfer,     \* history: the last item transaction of transferItemsForOrder
    total0,           \* history: the initial total count of every item document id per order
    ncall,            \* calls of createNotification made outside the reconciler
    peMainItems,      \* PosEvents/{e}/Orders/{o}/Items/{key}: the items of the main order
    peTotals,         \* totalPrice of the main order and of its POS copies, per order id
    nEvents,          \* change feed of the notification documents: updates not yet delivered
    refund,           \* invocations of onNotificationRefundUpdate
    nUpdates,         \* history: number of notification updates written so far
    refunded          \* history: per order, the item ids named by a completed refund

mailVars == <<emailDoc, mailer, mailLog>>

schedVars == <<evPos, evPosItems, evOrders, evOrderItems, distributionMode, loader, mailVars,
               servingPointDoc, purchase, purchaseLines, pEvents, deliveries,
               orch, lastPick, lastSkip, nPaid>>

reconVars == <<pePosItems, peItems, peOrders, peOrderItems, notifications, iEvents,
               rec, nFlips, flipped, lastTransfer, total0>>

refundVars == <<peMainItems, peTotals, nEvents, refund, nUpdates, refunded>>

\* Every variable but those of the email queue
nonMailVars == <<evPos, evPosItems, evOrders, evOrderItems, distributionMode,
                 servingPointDoc, loader, purchase, purchaseLines, pEvents,
                 deliveries, orch, lastPick, lastSkip, nPaid, reconVars, ncall,
                 refundVars>>

vars == <<schedVars, reconVars, ncall, refundVars>>

-----------------------------------------------------------------------------
(* Bounds of the model *)

MaxLines == 3
MaxOpenOrders == 1
MaxInvocations == 2
MaxDeliveries == 2
MaxPaid == 2
MaxReconcilers == 2
MaxFlips == 2
MaxCallers == 2
MaxCalls == 3
MaxRefunders == 2
MaxUpdates == 3
MaxQuantity == 3
MaxEntries == 2
MaxMailers == 2
MaxTriggers == 2
MaxKills == 1

-----------------------------------------------------------------------------
(* Domains *)

PosList == <<"A", "B", "C">>
Pos == {"A", "B", "C"}
ItemIds == {"x", "y", "z"}
PurchaseId == "o1"
OtherOrderIds == <<"o2", "o3", "o4">>
OrderIds == {PurchaseId} \cup {OtherOrderIds[n] : n \in 1..Len(OtherOrderIds)}
Absent == <<>>

Min2(a, b) == IF a <= b THEN a ELSE b
Max2(a, b) == IF a >= b THEN a ELSE b

RECURSIVE SumSeq(_)
SumSeq(s) == IF s = <<>> THEN 0 ELSE Head(s) + SumSeq(Tail(s))

RECURSIVE SetToSeq(_)
SetToSeq(S) == IF S = {} THEN <<>>
               ELSE LET e == CHOOSE v \in S : TRUE IN <<e>> \o SetToSeq(S \ {e})

RECURSIVE SeqsUpTo(_, _)
SeqsUpTo(S, n) == IF n = 0 THEN {<<>>}
                  ELSE LET shorter == SeqsUpTo(S, n - 1)
                       IN shorter \cup {Append(s, e) : s \in {t \in shorter : Len(t) = n - 1}, e \in S}

\* Array.prototype.join
RECURSIVE Join(_, _)
Join(s, sep) == IF s = <<>> THEN ""
                ELSE IF Len(s) = 1 THEN s[1]
                ELSE s[1] \o sep \o Join(Tail(s), sep)

SeqToSet(s) == {s[n] : n \in 1..Len(s)}

-----------------------------------------------------------------------------
(* Documents *)

NoOrder == [status |-> "none", transferredAt |-> FALSE]
OpenOrder == [status |-> "open", transferredAt |-> FALSE]
NoItemDocs == [k \in {} |-> 0]

\* Catalogue fields of an item id (Items/{itemId}: price, name)
ItemPrice(i) == CASE i = "x" -> 2 [] i = "y" -> 3 [] OTHER -> 1
ItemName(i) == "name-" \o i

\* One canonical line item as pushItemInstances builds it: count 1, extras and
\* excluded ingredients copied, no quantity, entries or __calculatedQuantity field.
CanonicalItem(i, extras, excluded) ==
    [id |-> i, selectedExtras |-> extras, excludedIngredients |-> excluded,
     count |-> <<1>>, quantity |-> Absent]

LineChoices ==
    { CanonicalItem("x", <<>>, <<>>),
      CanonicalItem("x", <<"a", "b">>, <<>>),
      CanonicalItem("x", <<"b", "a">>, <<>>),
      CanonicalItem("y", <<>>, <<"c">>),
      CanonicalItem("z", <<>>, <<>>) }

-----------------------------------------------------------------------------
(* loadPurchaseItems: one purchase-item document to canonical line items *)

\* A number v of a document is held as 2v, so that a half is told from a unit
FloorOf(h) == h \div 2

\* Array.isArray(v) ? v : fallback, an array field held as <<array>> when present
ArrayOr(field, fallback) == IF field # Absent THEN field[1] ELSE fallback

\* itemData.quantity ?? itemData.count
rawQuantity(doc) == IF doc.quantity # Absent THEN doc.quantity ELSE doc.count

\* The reduce over the entries: Number(entry?.quantity ?? 0), floored when positive
RECURSIVE entriesQuantity(_)
entriesQuantity(entries) ==
    IF entries = <<>> THEN 0
    ELSE LET value == IF Head(entries).quantity # Absent
                      THEN Head(entries).quantity[1] ELSE 0
         IN (IF value <= 0 THEN 0 ELSE FloorOf(value)) + entriesQuantity(Tail(entries))

\* let quantity: the floored positive raw quantity, else the entries' sum when
\* there are entries, else 1
documentQuantity(doc) ==
    LET raw == rawQuantity(doc)
        own == IF raw # Absent /\ raw[1] > 0 THEN FloorOf(raw[1]) ELSE 0
        withEntries == IF own <= 0 /\ Len(doc.entries) > 0
                       THEN entriesQuantity(doc.entries) ELSE own
    IN IF withEntries <= 0 THEN 1 ELSE withEntries

\* entryQuantity of the entries loop: Number(entry?.quantity ?? 1)
entryQuantity(entry) ==
    LET value == IF entry.quantity # Absent THEN entry.quantity[1] ELSE 2
    IN IF value > 0 THEN FloorOf(value) ELSE 0

RECURSIVE pushItemInstances(_, _, _, _)
pushItemInstances(i, quantityToCreate, extras, excluded) ==
    IF quantityToCreate <= 0 THEN <<>>
    ELSE <<CanonicalItem(i, extras, excluded)>>
         \o pushItemInstances(i, quantityToCreate - 1, extras, excluded)

baseSelectedExtras(doc) == ArrayOr(doc.selectedExtras, <<>>)
baseExcludedIngredients(doc) == ArrayOr(doc.excludedIngredients, <<>>)

\* The entries loop: the instances of every entry, in the order of the entries
RECURSIVE itemsFromEntries(_, _)
itemsFromEntries(doc, entries) ==
    IF entries = <<>> THEN <<>>
    ELSE LET entry == Head(entries)
         IN pushItemInstances(doc.itemId, entryQuantity(entry),
                              ArrayOr(entry.selectedExtras, baseSelectedExtras(doc)),
                              ArrayOr(entry.excludedIngredients,
                                      baseExcludedIngredients(doc)))
            \o itemsFromEntries(doc, Tail(entries))

RECURSIVE generatedFromEntries(_)
generatedFromEntries(entries) ==
    IF entries = <<>> THEN 0
    ELSE entryQuantity(Head(entries)) + generatedFromEntries(Tail(entries))

\* The remainder taken without the instances the entries gave
remainingQuantityWhole(doc) == documentQuantity(doc)

remainingQuantity(doc) ==
    Max2(documentQuantity(doc) - generatedFromEntries(doc.entries), 0)

loadPurchaseItems(doc) ==
    itemsFromEntries(doc, doc.entries)
    \o pushItemInstances(doc.itemId, remainingQuantity(doc),
                         baseSelectedExtras(doc), baseExcludedIngredients(doc))

\* The purchase-item documents the loader is run on
QuantityChoices == {Absent} \cup {<<h>> : h \in (0 - 1)..(2 * MaxQuantity)}
EntryChoices ==
    { [quantity |-> q, selectedExtras |-> f[1], excludedIngredients |-> f[2]] :
        q \in {Absent, <<0 - 2>>, <<0>>, <<1>>, <<2>>, <<4>>},
        f \in { <<Absent, Absent>>, <<<< <<"cheese">> >>, Absent>>,
                 <<<< <<>> >>, << <<"onion">> >>>> } }
ItemDocChoices ==
    { [itemId |-> "x", quantity |-> q, count |-> c, entries |-> es,
       selectedExtras |-> ex, excludedIngredients |-> Absent] :
        q \in QuantityChoices, c \in {Absent, <<4>>},
        es \in SeqsUpTo(EntryChoices, MaxEntries),
        ex \in {Absent, << <<"b">> >>} }

IdleLoader ==
    [pc |-> "idle",
     doc |-> [itemId |-> "x", quantity |-> Absent, count |-> Absent, entries |-> <<>>,
              selectedExtras |-> Absent, excludedIngredients |-> Absent]]

-----------------------------------------------------------------------------
(* functions/email-worker: the email queue *)

MAX_ATTEMPTS == 5

Mailers == 1..MaxMailers

\* data.status ?? 'pending'
statusOf(doc) == IF doc.status = "" THEN "pending" ELSE doc.status

\* markAsFailed: the status written for a failure of the given attempt
markAsFailed(attempts) == IF attempts >= MAX_ATTEMPTS THEN "failed" ELSE "error"

\* The step after buildTicketAttachments when its error is not caught
afterAttachmentsAbort(ok) == IF ok THEN "send" ELSE "markFailed"

\* The step after buildTicketAttachments: its error is caught and logged
afterAttachments(ok) == "send"

\* The transaction's test without the one for status processing
claimRejectsSentOnly(status) == status = "sent"

\* The transaction's test: 'Bereits versendet.' / 'Wird bereits verarbeitet.'
claimRejects(status) == status \in {"sent", "processing"}

IdleMailer ==
    [pc |-> "idle", source |-> "", currentAttempts |-> 0, found |-> "",
     attachments |-> "none", smtp |-> "none"]

NoMailLog == [triggers |-> 0, sends |-> 0, kills |-> 0]

Free(k) == mailer[k].pc \in {"idle", "done", "killed"}

\* The host starts an invocation in the first instance that is not running
FirstFreeMailer(k) == Free(k) /\ \A m \in 1..(k - 1) : ~Free(m)

\* onEmailQueued: the create event of the document is delivered
OnEmailQueued(k) ==
    /\ FirstFreeMailer(k)
    /\ mailLog.triggers < MaxTriggers
    /\ mailer' = [mailer EXCEPT ![k] = [IdleMailer EXCEPT !.pc = "claim",
                                                          !.source = "create"]]
    /\ mailLog' = [mailLog EXCEPT !.triggers = @ + 1]
    /\ UNCHANGED emailDoc
    /\ UNCHANGED nonMailVars

\* processEmailQueue: the document is in the result of the query for status
\* pending or of the query for status error
ProcessEmailQueue(k) ==
    /\ FirstFreeMailer(k)
    /\ emailDoc.status \in {"pending", "error"}
    /\ mailer' = [mailer EXCEPT ![k] = [IdleMailer EXCEPT !.pc = "claim",
                                                          !.source = "queue"]]
    /\ UNCHANGED <<emailDoc, mailLog>>
    /\ UNCHANGED nonMailVars

\* handleEmailDocument: the transaction that takes the document
Claim(k) ==
    /\ mailer[k].pc = "claim"
    /\ IF claimRejects(statusOf(emailDoc))
       THEN /\ mailer' = [mailer EXCEPT ![k].pc = "done",
                                        ![k].found = statusOf(emailDoc)]
            /\ UNCHANGED emailDoc
       ELSE /\ emailDoc' = [emailDoc EXCEPT !.status = "processing",
                                            !.attempts = @ + 1]
            /\ mailer' = [mailer EXCEPT
                  ![k].pc = IF emailDoc.type = "ticket" THEN "attach" ELSE "send",
                  ![k].found = statusOf(emailDoc),
                  ![k].currentAttempts = emailDoc.attempts + 1]
    /\ UNCHANGED mailLog
    /\ UNCHANGED nonMailVars

\* buildTicketAttachments for a ticket email, which succeeds or throws
Attach(k) ==
    /\ mailer[k].pc = "attach"
    /\ \E ok \in BOOLEAN :
          mailer' = [mailer EXCEPT ![k].pc = afterAttachments(ok),
                                   ![k].attachments = IF ok THEN "ok" ELSE "failed"]
    /\ UNCHANGED <<emailDoc, mailLog>>
    /\ UNCHANGED nonMailVars

\* sendEmail: the email is handed to SMTP, which accepts it or fails
Send(k) ==
    /\ mailer[k].pc = "send"
    /\ \E ok \in BOOLEAN :
          mailer' = [mailer EXCEPT ![k].pc = IF ok THEN "markSent" ELSE "markFailed",
                                   ![k].smtp = IF ok THEN "ok" ELSE "failed"]
    /\ mailLog' = [mailLog EXCEPT !.sends = @ + 1]
    /\ UNCHANGED emailDoc
    /\ UNCHANGED nonMailVars

\* docRef.update({status: 'sent', ...})
MarkSent(k) ==
    /\ mailer[k].pc = "markSent"
    /\ emailDoc' = [emailDoc EXCEPT !.status = "sent"]
    /\ mailer' = [mailer EXCEPT ![k].pc = "done"]
    /\ UNCHANGED mailLog
    /\ UNCHANGED nonMailVars

\* The catch of handleEmailDocument: markAsFailed(docRef, error, currentAttempts)
MarkFailed(k) ==
    /\ mailer[k].pc = "markFailed"
    /\ emailDoc' = [emailDoc EXCEPT !.status = markAsFailed(mailer[k].currentAttempts)]
    /\ mailer' = [mailer EXCEPT ![k].pc = "done"]
    /\ UNCHANGED mailLog
    /\ UNCHANGED nonMailVars

\* The host ends an invocation at its deadline (timeoutSeconds: 120) after the
\* transaction and before the write of the final status
Deadline(k) ==
    /\ mailer[k].pc \in {"attach", "send", "markSent", "markFailed"}
    /\ mailLog.kills < MaxKills
    /\ mailer' = [mailer EXCEPT ![k].pc = "killed"]
    /\ mailLog' = [mailLog EXCEPT !.kills = @ + 1]
    /\ UNCHANGED emailDoc
    /\ UNCHANGED nonMailVars

InitMailIdle ==
    /\ emailDoc = [status |-> "sent", attempts |-> 1, type |-> "plain"]
    /\ mailer = [k \in Mailers |-> IdleMailer]
    /\ mailLog = NoMailLog

-----------------------------------------------------------------------------
(* shared/database-helpers.ts *)

\* getItemQuantity on an item without entries and __calculatedQuantity:
\* quantity ?? count ?? 1, then 0 for a non-positive value.
getItemQuantity(item) ==
    LET rawValue == IF item.quantity # Absent THEN item.quantity[1]
                    ELSE IF item.count # Absent THEN item.count[1]
                    ELSE 1
    IN IF rawValue <= 0 THEN 0 ELSE rawValue

\* The document id of a distributed item: `${id}_${extras.join(',')}_${excluded.join(',')}`
ItemKey(item) ==
    item.id \o "_" \o Join(item.selectedExtras, ",") \o "_" \o Join(item.excludedIngredients, ",")

\* The grouping loop with existing.count = quantity in place of += quantity
RECURSIVE groupedItemsOverwrite(_, _)
groupedItemsOverwrite(items, acc) ==
    IF items = <<>> THEN acc
    ELSE LET item == Head(items)
             key == ItemKey(item)
             quantity == getItemQuantity(item)
         IN IF quantity = 0 THEN groupedItemsOverwrite(Tail(items), acc)
            ELSE groupedItemsOverwrite(Tail(items),
                    [k \in DOMAIN acc \cup {key} |->
                        IF k = key THEN [item |-> item, count |-> quantity] ELSE acc[k]])

\* The grouping loop of createDistributedPurchaseForPointOfSale
RECURSIVE groupedItems(_, _)
groupedItems(items, acc) ==
    IF items = <<>> THEN acc
    ELSE LET item == Head(items)
             key == ItemKey(item)
             quantity == getItemQuantity(item)
         IN IF quantity = 0 THEN groupedItems(Tail(items), acc)
            ELSE IF key \in DOMAIN acc
                 THEN groupedItems(Tail(items), [acc EXCEPT ![key].count = @ + quantity])
                 ELSE groupedItems(Tail(items), acc @@ (key :> [item |-> item, count |-> quantity]))

\* The item document batch.set writes for one group
DistributedItemDoc(g) ==
    [id |-> g.item.id, itemId |-> "", count |-> <<g.count>>, quantity |-> Absent,
     price |-> ItemPrice(g.item.id), name |-> ItemName(g.item.id), status |-> ""]

\* The item documents of the order after the batch: set replaces a document of
\* the same id and leaves the others.
BatchItemDocs(existing, items) ==
    LET g == groupedItems(items, NoItemDocs)
    IN [k \in DOMAIN existing \cup DOMAIN g |->
          IF k \in DOMAIN g THEN DistributedItemDoc(g[k]) ELSE existing[k]]

\* countOpenOrdersForStore: the size of the query orderStatus == 'open'
countOpenOrdersForStore(orders, storeId) ==
    Cardinality({o \in OrderIds : orders[storeId][o].status = "open"})

\* getPointsOfSaleFromEvent: every POS document with the ids of its Items documents
getPointsOfSaleFromEvent(posDocs, posItems) ==
    [n \in 1..Len(posDocs) |->
        [id |-> posDocs[n],
         availableItems |-> {i \in ItemIds : posItems[posDocs[n]][i] # "absent"}]]

-----------------------------------------------------------------------------
(* shared/distribute-order.ts: distributeItems, balanced mode *)

\* The filter that lets every store pass
availableStoresUnfiltered(item, pointsOfSale) == pointsOfSale

\* pointsOfSale.filter(store => store.availableItems.some(a => a.id === item.id))
availableStores(item, pointsOfSale) ==
    SelectSeq(pointsOfSale, LAMBDA store : item.id \in store.availableItems)

\* Array.prototype.sort((a, b) => a.count - b.count): a stable sort
RECURSIVE InsertByCount(_, _)
InsertByCount(sorted, e) ==
    IF sorted = <<>> THEN <<e>>
    ELSE IF e.count < Head(sorted).count THEN <<e>> \o sorted
    ELSE <<Head(sorted)>> \o InsertByCount(Tail(sorted), e)

RECURSIVE SortByCount(_)
SortByCount(s) ==
    IF s = <<>> THEN <<>>
    ELSE InsertByCount(SortByCount(SubSeq(s, 1, Len(s) - 1)), s[Len(s)])

\* storesWithOpenOrders, sorted; leastBusyStore is its first element
storesWithOpenOrders(stores, orders) ==
    [n \in 1..Len(stores) |->
        [store |-> stores[n].id, count |-> countOpenOrdersForStore(orders, stores[n].id)]]

\* The least busy store taken with a comparator that puts a later store before
\* an earlier one of the same count
RECURSIVE InsertBeforeEqual(_, _)
InsertBeforeEqual(sorted, e) ==
    IF sorted = <<>> THEN <<e>>
    ELSE IF e.count <= Head(sorted).count THEN <<e>> \o sorted
    ELSE <<Head(sorted)>> \o InsertBeforeEqual(Tail(sorted), e)

RECURSIVE SortBeforeEqual(_)
SortBeforeEqual(s) ==
    IF s = <<>> THEN <<>>
    ELSE InsertBeforeEqual(SortBeforeEqual(SubSeq(s, 1, Len(s) - 1)), s[Len(s)])

leastBusyStoreLastOfTies(stores, orders) ==
    SortBeforeEqual(storesWithOpenOrders(stores, orders))[1].store

leastBusyStore(stores, orders) ==
    SortByCount(storesWithOpenOrders(stores, orders))[1].store

\* storeOrdersMap.get(store).push(item), the map kept in insertion order
PushToStore(map, store, item) ==
    IF \E n \in 1..Len(map) : map[n].store = store
    THEN [n \in 1..Len(map) |->
            IF map[n].store = store
            THEN [map[n] EXCEPT !.items = Append(@, item)]
            ELSE map[n]]
    ELSE Append(map, [store |-> store, items |-> <<item>>])

-----------------------------------------------------------------------------
(* functions/purchaseTrigger: onPurchaseCreated (onWrite) *)

Invocations == 1..MaxInvocations

Snapshot(doc) ==
    [exists |-> doc.exists, isPaid |-> doc.isPaid, distributed |-> doc.distributed,
     servingPointId |-> doc.servingPointId]

NoPick == [valid |-> FALSE, inv |-> 0, item |-> "", store |-> "",
           counts |-> [p \in Pos |-> 0]]

IdleInvocation ==
    [pc |-> "idle", beforePaid |-> FALSE,
     after |-> [exists |-> FALSE, isPaid |-> FALSE, distributed |-> FALSE,
                servingPointId |-> ""],
     stores |-> <<>>, items |-> <<>>, idx |-> 0, map |-> <<>>,
     success |-> "none", error |-> "", writes |-> 0, rpc |-> FALSE]

\* A write of the purchase document: the store appends one change event
WritePurchase(doc) ==
    /\ purchase' = doc
    /\ pEvents' = pEvents \cup {[beforePaid |-> purchase.isPaid, after |-> Snapshot(doc)]}

\* The guards without the check of purchaseData.distributed
PassesGuardsWithoutMarker(beforePaid, after) ==
    /\ after.exists
    /\ after.isPaid
    /\ ~beforePaid
    /\ after.servingPointId # ""

\* The guards without the check of wasPaidBefore
PassesGuardsWithoutEdge(beforePaid, after) ==
    /\ after.exists
    /\ after.isPaid
    /\ ~after.distributed
    /\ after.servingPointId # ""

\* The guards before the first store read: purchaseData (the document exists
\* after the write), isPaidNow, wasPaidBefore, purchaseData.distributed,
\* servingPointId.
PassesGuards(beforePaid, after) ==
    /\ after.exists
    /\ after.isPaid
    /\ ~beforePaid
    /\ ~after.distributed
    /\ after.servingPointId # ""

\* The client marks the purchase as paid
Pay(limit) ==
    /\ purchase.exists
    /\ ~purchase.isPaid
    /\ nPaid < limit
    /\ WritePurchase([purchase EXCEPT !.isPaid = TRUE])
    /\ nPaid' = nPaid + 1
    /\ UNCHANGED <<evPos, evPosItems, evOrders, evOrderItems, distributionMode, loader, mailVars,
                   servingPointDoc, purchaseLines, orch, lastPick, deliveries, lastSkip,
                   reconVars, ncall, refundVars>>

\* The client takes the payment back
Unpay ==
    /\ purchase.exists
    /\ purchase.isPaid
    /\ nPaid < MaxPaid
    /\ WritePurchase([purchase EXCEPT !.isPaid = FALSE])
    /\ UNCHANGED <<evPos, evPosItems, evOrders, evOrderItems, distributionMode, loader, mailVars,
                   servingPointDoc, purchaseLines, orch, lastPick, nPaid, deliveries, lastSkip,
                   reconVars, ncall, refundVars>>

\* The transport delivers change event ev to invocation k (at least once: any
\* written event, again and again, `limit` deliveries in all); the handler runs
\* up to its first store read, or returns at one of its guards.
Deliver(k, ev, limit) ==
    /\ orch[k].pc \in {"idle", "done"}
    /\ deliveries < limit
    /\ deliveries' = deliveries + 1
    /\ IF PassesGuards(ev.beforePaid, ev.after)
       THEN /\ orch' = [orch EXCEPT ![k] =
                          [IdleInvocation EXCEPT !.pc = "servingPoint",
                                                 !.beforePaid = ev.beforePaid,
                                                 !.after = ev.after]]
            /\ UNCHANGED lastSkip
       ELSE /\ lastSkip' = [valid |-> TRUE, beforePaid |-> ev.beforePaid,
                            after |-> ev.after]
            /\ UNCHANGED orch
    /\ UNCHANGED <<evPos, evPosItems, evOrders, evOrderItems, distributionMode, loader, mailVars,
                   servingPointDoc, purchase, purchaseLines, pEvents, lastPick, nPaid,
                   reconVars, ncall, refundVars>>

\* getServingPointById: a missing serving point ends the invocation
LoadServingPoint(k) ==
    /\ orch[k].pc = "servingPoint"
    /\ orch' = [orch EXCEPT ![k].pc = IF servingPointDoc THEN "load" ELSE "done"]
    /\ UNCHANGED <<evPos, evPosItems, evOrders, evOrderItems, distributionMode, loader, mailVars,
                   servingPointDoc, purchase, purchaseLines, pEvents, lastPick, nPaid, deliveries, lastSkip,
                   reconVars, ncall, refundVars>>

NoPosError == "No Points of Sale found for this event"
GroupedError == "Grouped distribution mode not yet implemented"
UnknownModeError(mode) == "Unknown distribution mode: " \o mode
StoreError == "store error"

\* The error with every mode but balanced taken as unknown
schedulerErrorUnknownMode(stores, mode) ==
    IF Len(stores) = 0 THEN NoPosError
    ELSE IF mode = "balanced" THEN ""
    ELSE UnknownModeError(mode)

\* The error of distributeOrderWithoutPurchase known before the first item is
\* looked at: no POS in the event, then the mode test of distributeItems;
\* "" when there is none
schedulerError(stores, mode) ==
    IF Len(stores) = 0 THEN NoPosError
    ELSE IF mode = "balanced" THEN ""
    ELSE IF mode = "grouped" THEN GroupedError
    ELSE UnknownModeError(mode)

\* loadPurchaseItems, getDistributionMode, then distributeOrderWithoutPurchase
\* up to the call of distributeItems: no items ends the invocation; no POS and
\* the grouped mode end the scheduler with success = false.
LoadPurchase(k) ==
    /\ orch[k].pc = "load"
    /\ LET stores == getPointsOfSaleFromEvent(evPos, evPosItems)
       IN orch' = [orch EXCEPT ![k] =
             IF purchaseLines = <<>> THEN [@ EXCEPT !.pc = "done"]
             ELSE IF schedulerError(stores, distributionMode) # ""
                  THEN [@ EXCEPT !.pc = "done", !.success = "failure",
                                 !.error = schedulerError(stores, distributionMode),
                                 !.items = purchaseLines]
                  ELSE [@ EXCEPT !.pc = "bucket", !.items = purchaseLines,
                                 !.stores = stores, !.idx = 1]]
    /\ UNCHANGED <<evPos, evPosItems, evOrders, evOrderItems, distributionMode, loader, mailVars,
                   servingPointDoc, purchase, purchaseLines, pEvents, lastPick, nPaid, deliveries, lastSkip,
                   reconVars, ncall, refundVars>>

\* The end of the loop taken as the end of the scheduler, without the store loop
AfterBucketingWithoutWrites(inv, map) ==
    IF inv.idx < Len(inv.items)
    THEN [inv EXCEPT !.idx = @ + 1, !.map = map]
    ELSE [inv EXCEPT !.pc = "mark", !.success = "success", !.map = map, !.idx = 0]

AfterBucketing(inv, map) ==
    IF inv.idx < Len(inv.items)
    THEN [inv EXCEPT !.idx = @ + 1, !.map = map]
    ELSE IF map = <<>>
         THEN [inv EXCEPT !.pc = "mark", !.success = "success", !.map = map, !.idx = 0]
         ELSE [inv EXCEPT !.pc = "write", !.map = map, !.idx = 1]

\* One iteration of the loop over itemList: the open-order counts of the
\* stores carrying the item are read, the least busy store gets the item.
BucketItem(k) ==
    /\ orch[k].pc = "bucket"
    /\ LET inv == orch[k]
           item == inv.items[inv.idx]
           carriers == availableStores(item, inv.stores)
       IN IF Len(carriers) > 0
          THEN LET store == leastBusyStore(carriers, evOrders)
               IN /\ orch' = [orch EXCEPT ![k] =
                                 AfterBucketing(inv, PushToStore(inv.map, store, item))]
                  /\ lastPick' = [valid |-> TRUE, inv |-> k, item |-> item.id,
                                  store |-> store,
                                  counts |-> [p \in Pos |->
                                               countOpenOrdersForStore(evOrders, p)]]
          ELSE /\ orch' = [orch EXCEPT ![k] = AfterBucketing(inv, inv.map)]
               /\ UNCHANGED lastPick
    /\ UNCHANGED <<evPos, evPosItems, evOrders, evOrderItems, distributionMode, loader, mailVars,
                   servingPointDoc, purchase, purchaseLines, pEvents, nPaid, deliveries, lastSkip,
                   reconVars, ncall, refundVars>>

\* createDistributedPurchaseForPointOfSale for the next bucket: the batch
\* commits (item documents and the order document, atomically) ...
WriteBucket(k) ==
    /\ orch[k].pc = "write"
    /\ LET inv == orch[k]
           bucket == inv.map[inv.idx]
       IN /\ evOrderItems' = [evOrderItems EXCEPT ![bucket.store][PurchaseId] =
                                 BatchItemDocs(@, bucket.items)]
          /\ evOrders' = [evOrders EXCEPT ![bucket.store][PurchaseId] = OpenOrder]
          /\ orch' = [orch EXCEPT ![k] =
                IF inv.idx < Len(inv.map)
                THEN [inv EXCEPT !.idx = @ + 1, !.writes = @ + 1]
                ELSE [inv EXCEPT !.pc = "mark", !.success = "success",
                                 !.writes = @ + 1]]
    /\ UNCHANGED <<evPos, evPosItems, distributionMode, loader, mailVars, servingPointDoc, purchase,
                   purchaseLines, pEvents, lastPick, nPaid, deliveries, lastSkip,
                   reconVars, ncall, refundVars>>

\* ... or the commit fails: distributeOrderWithoutPurchase catches the error
\* and returns success = false, which the trigger only logs.
WriteBucketFails(k) ==
    /\ orch[k].pc = "write"
    /\ orch' = [orch EXCEPT ![k].pc = "done", ![k].success = "failure",
                            ![k].error = StoreError]
    /\ UNCHANGED <<evPos, evPosItems, evOrders, evOrderItems, distributionMode, loader, mailVars,
                   servingPointDoc, purchase, purchaseLines, pEvents, lastPick, nPaid, deliveries, lastSkip,
                   reconVars, ncall, refundVars>>

\* result.success: change.after.ref.update({distributed: true, distributedAt});
\* on a deleted document the update and the update of the catch block raise.
MarkDistributed(k) ==
    /\ orch[k].pc = "mark"
    /\ ~orch[k].rpc
    /\ IF purchase.exists
       THEN /\ WritePurchase([purchase EXCEPT !.distributed = TRUE])
            /\ orch' = [orch EXCEPT ![k].pc = "done", ![k].writes = @ + 1]
       ELSE /\ orch' = [orch EXCEPT ![k].pc = "done", ![k].success = "error"]
            /\ UNCHANGED <<purchase, pEvents>>
    /\ UNCHANGED <<evPos, evPosItems, evOrders, evOrderItems, distributionMode, loader, mailVars,
                   servingPointDoc, purchaseLines, lastPick, nPaid, deliveries, lastSkip,
                   reconVars, ncall, refundVars>>

CountReadError == "open order count read failed"

\* The read taken to fail in the store loop as well
CountReadFailsDuringWrites(k) ==
    /\ orch[k].pc \in {"bucket", "write"}
    /\ orch' = [orch EXCEPT ![k].pc = "done", ![k].success = "failure",
                            ![k].error = CountReadError]
    /\ UNCHANGED <<evPos, evPosItems, evOrders, evOrderItems, distributionMode, loader, mailVars,
                   servingPointDoc, purchase, purchaseLines, pEvents, lastPick, nPaid,
                   deliveries, lastSkip, reconVars, ncall, refundVars>>

\* countOpenOrdersForStore raises for a store that carries the item at hand:
\* distributeItems is left in its item loop, distributeOrderWithoutPurchase
\* catches the error and returns success = false.
CountReadFails(k) ==
    /\ orch[k].pc = "bucket"
    /\ Len(availableStores(orch[k].items[orch[k].idx], orch[k].stores)) > 0
    /\ orch' = [orch EXCEPT ![k].pc = "done", ![k].success = "failure",
                            ![k].error = CountReadError]
    /\ UNCHANGED <<evPos, evPosItems, evOrders, evOrderItems, distributionMode, loader, mailVars,
                   servingPointDoc, purchase, purchaseLines, pEvents, lastPick, nPaid,
                   deliveries, lastSkip, reconVars, ncall, refundVars>>

\* The purchase document after its deletion
DeletedPurchase ==
    [exists |-> FALSE, isPaid |-> FALSE, distributed |-> FALSE, servingPointId |-> "",
     distributionFailed |-> FALSE]

\* The client deletes the purchase document: the change event has no after-data
DeletePurchase ==
    /\ purchase.exists
    /\ WritePurchase(DeletedPurchase)
    /\ UNCHANGED <<evPos, evPosItems, evOrders, evOrderItems, distributionMode, loader, mailVars,
                   servingPointDoc, purchaseLines, orch, lastPick, nPaid, deliveries, lastSkip,
                   reconVars, ncall, refundVars>>

\* A store read of the handler (getServingPointById, loadPurchaseItems,
\* getDistributionMode) raises: the catch block updates the purchase with
\* distributionError and distributionFailed and rethrows; on a deleted
\* document that update raises too and is logged.
ReadFails(k) ==
    /\ orch[k].pc \in {"servingPoint", "load"}
    /\ orch' = [orch EXCEPT ![k].pc = "done", ![k].success = "error"]
    /\ IF purchase.exists
       THEN WritePurchase([purchase EXCEPT !.distributionFailed = TRUE])
       ELSE UNCHANGED <<purchase, pEvents>>
    /\ UNCHANGED <<evPos, evPosItems, evOrders, evOrderItems, distributionMode, loader, mailVars,
                   servingPointDoc, purchaseLines, lastPick, nPaid, deliveries, lastSkip,
                   reconVars, ncall, refundVars>>

-----------------------------------------------------------------------------
(* shared/notifications.ts: createNotification *)

\* baseData: orderId and action default to null (""), status to 'created'
baseData(payload) ==
    [orderId |-> payload.orderId, action |-> payload.action,
     status |-> IF payload.status = "" THEN "created" ELSE payload.status,
     price |-> payload.price, itemIds |-> payload.itemIds]

\* The query with the filter on status == 'created' alone
existingSnapshotCreatedOnly(notifs, payload) ==
    {n \in 1..Len(notifs) :
        /\ notifs[n].orderId = payload.orderId
        /\ notifs[n].action = baseData(payload).action
        /\ notifs[n].status = "created"}

\* The documents matching orderId == payload.orderId, action == baseData.action,
\* status in ['created', 'in_progress']; limit(1) returns one of them.
existingSnapshot(notifs, payload) ==
    {n \in 1..Len(notifs) :
        /\ notifs[n].orderId = payload.orderId
        /\ notifs[n].action = baseData(payload).action
        /\ notifs[n].status \in {"created", "in_progress"}}

\* The references createNotification may get from the query: 0 stands for no
\* reference (no orderId in the payload, or an empty snapshot).
existingRefs(notifs, payload) ==
    IF payload.orderId # "" /\ existingSnapshot(notifs, payload) # {}
    THEN existingSnapshot(notifs, payload)
    ELSE {0}

\* existingRef.update({...baseData}) or notificationsRef.add({...baseData})
writeNotification(notifs, ref, payload) ==
    IF ref # 0 THEN [notifs EXCEPT ![ref] = baseData(payload)]
    ELSE Append(notifs, baseData(payload))

\* The id createNotification returns
returnedId(notifs, ref) == IF ref # 0 THEN ref ELSE Len(notifs) + 1

-----------------------------------------------------------------------------
(* functions/itemAvailability: helpers *)

Reconcilers == 1..MaxReconcilers

IdleReconciler ==
    [pc |-> "idle", pos |-> "", item |-> "", target |-> "", orders |-> <<>>,
     oidx |-> 0, docs |-> <<>>, didx |-> 0, scan |-> 0, found |-> FALSE,
     cache |-> [i \in ItemIds |-> "unknown"]]

NoTransfer == [n |-> 0, src |-> "", dst |-> "", order |-> "", key |-> "",
               existing |-> 0, transfer |-> 0, dsts |-> {}]

\* isItemGloballyAvailable on a cache miss: the canonical document is absent,
\* or its isAvailable is not false.  (Every caller passes its own cache, so
\* the module-level globalAvailabilityCache is written and never read.)
isItemGloballyAvailable(items, itemId) == items[itemId] # "off"

\* isItemFlagAvailable on the data of an existing document
isItemFlagAvailable(flag) == flag = "on"

\* extractCountFromItem: quantity ?? count ?? 0, then 0 for a non-positive value
extractCountFromItem(data) ==
    LET raw == IF data.quantity # Absent THEN data.quantity[1]
               ELSE IF data.count # Absent THEN data.count[1]
               ELSE 0
    IN IF raw <= 0 THEN 0 ELSE raw

\* extractCountFromItem(targetItemSnapshot.exists ? data : undefined)
existingCount(docs, key) ==
    IF key \in DOMAIN docs THEN extractCountFromItem(docs[key]) ELSE 0

\* The transaction's sum with the destination's count left out
newCountWithoutExisting(existing, transferCount) == transferCount

\* newCount = existingCount + transferCount
newCount(existing, transferCount) == existing + transferCount

\* sanitizeItemData: itemId = itemId || id, quantity = newCount; count and id deleted
sanitizeItemData(source, count) ==
    [source EXCEPT !.itemId = IF source.itemId # "" THEN source.itemId ELSE source.id,
                   !.quantity = <<count>>,
                   !.count = Absent,
                   !.id = ""]

\* The candidates left in the order of the enumeration
findCandidateStoresUnsorted(excludePosId, itemId) ==
    LET others == SelectSeq(PosList, LAMBDA p :
                      /\ p # excludePosId
                      /\ pePosItems[p][itemId] # "absent"
                      /\ isItemFlagAvailable(pePosItems[p][itemId]))
    IN [n \in 1..Len(others) |->
           [store |-> others[n],
            count |-> countOpenOrdersForStore(evOrders, others[n])]]

\* findCandidateStores: the other POS whose item document exists with the flag
\* on, each with its open-order count (countOpenOrdersForStore reads the root
\* Events), sorted by that count.
findCandidateStores(excludePosId, itemId) ==
    LET others == SelectSeq(PosList, LAMBDA p :
                      /\ p # excludePosId
                      /\ pePosItems[p][itemId] # "absent"
                      /\ isItemFlagAvailable(pePosItems[p][itemId]))
    IN SortByCount([n \in 1..Len(others) |->
                      [store |-> others[n],
                       count |-> countOpenOrdersForStore(evOrders, others[n])]])

\* The query orderStatus == 'open' on the orders of a POS
openOrdersOf(posId) == SetToSeq({o \in OrderIds : peOrders[posId][o].status = "open"})

\* ensureTargetOrderDocument: an existing target is reopened and loses
\* transferredAt; a missing one is created with the source's orderStatus.
ensureTargetOrderDocument(targetData, sourceOrderData) ==
    IF targetData.status # "none"
    THEN [status |-> "open", transferredAt |-> FALSE]
    ELSE [status |-> IF sourceOrderData.status # "none" THEN sourceOrderData.status ELSE "open",
          transferredAt |-> FALSE]

\* Every document with an id field taken as transferable
isItemTransferableAny(itemData, itemId) == itemData.id # ""

\* isItemTransferable: the document has an id field that is the flipped item
\* or an item the canonical catalogue has available
isItemTransferable(itemData, itemId) ==
    /\ itemData.id # ""
    /\ \/ itemData.id = itemId
       \/ isItemGloballyAvailable(peItems, itemData.id)

\* itemsToTransfer: the snapshots (document id and data) of the transferable
\* item documents with a positive count
itemsToTransfer(docs, itemId) ==
    LET keys == SetToSeq(DOMAIN docs)
        picked == SelectSeq(keys, LAMBDA k :
                      /\ extractCountFromItem(docs[k]) > 0
                      /\ isItemTransferable(docs[k], itemId))
    IN [n \in 1..Len(picked) |-> [key |-> picked[n], data |-> docs[picked[n]]]]

\* data.itemId || data.id of an order item
entryId(data) == IF data.itemId # "" THEN data.itemId ELSE data.id

\* The availability cache of notifySoldOutOrders after one order: the ids of
\* the order are looked up unless cached, the flipped item is set to false.
cacheAfter(cache, ids, itemId) ==
    [i \in ItemIds |->
        IF i = itemId THEN "no"
        ELSE IF cache[i] # "unknown" THEN cache[i]
        ELSE IF i \in ids
             THEN (IF isItemGloballyAvailable(peItems, i) THEN "yes" ELSE "no")
             ELSE "unknown"]

\* The payload with the prices of the sold-out entries summed without their counts
soldOutNotificationUnitPrices(docs, orderId, cache) ==
    LET entries == {k \in DOMAIN docs : entryId(docs[k]) # ""}
        soldOut == {k \in entries : cache[entryId(docs[k])] = "no"}
        counted == SetToSeq({k \in soldOut : extractCountFromItem(docs[k]) > 0})
        totalPrice == SumSeq([n \in 1..Len(counted) |->
                          IF docs[counted[n]].price > 0 THEN docs[counted[n]].price ELSE 0])
        itemNames == {docs[counted[n]].name : n \in 1..Len(counted)} \ {""}
    IN [emit |-> soldOut # {} /\ totalPrice > 0 /\ itemNames # {},
        payload |-> [orderId |-> orderId, action |-> "refund", status |-> "created",
                     price |-> totalPrice, hasTitle |-> TRUE,
                     itemIds |-> {entryId(docs[k]) : k \in soldOut}]]

\* notifySoldOutOrders for one order: the payload it emits, or none
soldOutNotification(docs, orderId, cache) ==
    LET entries == {k \in DOMAIN docs : entryId(docs[k]) # ""}
        soldOut == {k \in entries : cache[entryId(docs[k])] = "no"}
        counted == SetToSeq({k \in soldOut : extractCountFromItem(docs[k]) > 0})
        totalPrice == SumSeq([n \in 1..Len(counted) |->
                          IF docs[counted[n]].price > 0
                          THEN docs[counted[n]].price * extractCountFromItem(docs[counted[n]])
                          ELSE 0])
        itemNames == {docs[counted[n]].name : n \in 1..Len(counted)} \ {""}
    IN [emit |-> soldOut # {} /\ totalPrice > 0 /\ itemNames # {},
        payload |-> [orderId |-> orderId, action |-> "refund", status |-> "created",
                     price |-> totalPrice, hasTitle |-> TRUE,
                     itemIds |-> {entryId(docs[k]) : k \in soldOut}]]

\* syncGlobalItemAvailability's test of one POS without the test of the flag
scanFindsDocument(flag) == flag # "absent"

\* syncGlobalItemAvailability's test of one POS: the item document exists and
\* its isAvailable is not false
scanFindsAvailable(flag) == flag # "absent" /\ flag # "off"

-----------------------------------------------------------------------------
(* functions/itemAvailability: onPosItemAvailabilityChanged (onUpdate) *)

\* An operator at the POS writes the item document of item i at POS p; the
\* store appends one change event with the availability before and after
\* (isAvailable when it is a boolean, true otherwise).
UpdatePosItem(p, i, flag) ==
    /\ pePosItems[p][i] # "absent"
    /\ nFlips < MaxFlips
    /\ pePosItems' = [pePosItems EXCEPT ![p][i] = flag]
    /\ iEvents' = iEvents \cup {[n |-> nFlips + 1, pos |-> p, item |-> i,
                                 before |-> (pePosItems[p][i] = "on"),
                                 after |-> (flag = "on")]}
    /\ nFlips' = nFlips + 1
    /\ flipped' = IF flag # pePosItems[p][i]
                  THEN [flipped EXCEPT ![p][i] = @ + 1] ELSE flipped
    /\ UNCHANGED <<peItems, peOrders, peOrderItems, notifications, rec,
                   lastTransfer, total0, schedVars, ncall, refundVars>>

\* Entry of syncGlobalItemAvailability: the scan starts at the first POS
toScan(rc) ==
    [IdleReconciler EXCEPT !.pc = "scan", !.pos = rc.pos, !.item = rc.item, !.scan = 1]

\* End of one order of a loop over the open orders: the next order, or the
\* step that follows the loop
afterOrder(rc, pcLoop, pcAfter) ==
    IF rc.oidx < Len(rc.orders)
    THEN [rc EXCEPT !.pc = pcLoop, !.oidx = @ + 1, !.docs = <<>>, !.didx = 0]
    ELSE IF pcAfter = "scan" THEN toScan(rc)
    ELSE [rc EXCEPT !.pc = pcAfter, !.orders = <<>>, !.oidx = 0]

\* Start of a loop over the snapshot of the open orders
startLoop(rc, orders, pcLoop, pcAfter) ==
    IF orders = <<>>
    THEN (IF pcAfter = "scan" THEN toScan(rc) ELSE [rc EXCEPT !.pc = pcAfter])
    ELSE [rc EXCEPT !.pc = pcLoop, !.orders = orders, !.oidx = 1]

\* The transport delivers a change event to a free invocation; the handler
\* returns when the availability did not change.
DeliverItemEvent(r, ev) ==
    /\ rec[r].pc = "idle"
    /\ \A m \in 1..(r - 1) : rec[m].pc # "idle"
    /\ iEvents' = iEvents \ {ev}
    /\ rec' = [rec EXCEPT ![r] =
                 IF ev.before = ev.after THEN @
                 ELSE [IdleReconciler EXCEPT
                          !.pc = IF ev.after THEN "reactivate" ELSE "candidates",
                          !.pos = ev.pos, !.item = ev.item]]
    /\ UNCHANGED <<pePosItems, peItems, peOrders, peOrderItems, notifications,
                   nFlips, flipped, lastTransfer, total0, schedVars, ncall, refundVars>>

\* afterAvailable: globalItemRef.set({isAvailable: true}), then the sync
Reactivate(r) ==
    /\ rec[r].pc = "reactivate"
    /\ peItems' = [peItems EXCEPT ![rec[r].item] = "on"]
    /\ rec' = [rec EXCEPT ![r] = toScan(@)]
    /\ UNCHANGED <<pePosItems, peOrders, peOrderItems, notifications, iEvents,
                   nFlips, flipped, lastTransfer, total0, schedVars, ncall, refundVars>>

\* findCandidateStores and the branch on its result
Candidates(r) ==
    /\ rec[r].pc = "candidates"
    /\ LET candidateStores == findCandidateStores(rec[r].pos, rec[r].item)
       IN rec' = [rec EXCEPT ![r] =
                    IF Len(candidateStores) = 0
                    THEN [@ EXCEPT !.pc = "disable"]
                    ELSE [@ EXCEPT !.pc = "keep", !.target = candidateStores[1].store]]
    /\ UNCHANGED <<pePosItems, peItems, peOrders, peOrderItems, notifications, iEvents,
                   nFlips, flipped, lastTransfer, total0, schedVars, ncall, refundVars>>

\* No candidate: globalItemRef.set({isAvailable: false})
Disable(r) ==
    /\ rec[r].pc = "disable"
    /\ peItems' = [peItems EXCEPT ![rec[r].item] = "off"]
    /\ rec' = [rec EXCEPT ![r].pc = "notifyQuery"]
    /\ UNCHANGED <<pePosItems, peOrders, peOrderItems, notifications, iEvents,
                   nFlips, flipped, lastTransfer, total0, schedVars, ncall, refundVars>>

\* notifySoldOutOrders: the query of the open orders of the POS
NotifyQuery(r) ==
    /\ rec[r].pc = "notifyQuery"
    /\ rec' = [rec EXCEPT ![r] = startLoop(@, openOrdersOf(@.pos), "notify", "markQuery")]
    /\ UNCHANGED <<pePosItems, peItems, peOrders, peOrderItems, notifications, iEvents,
                   nFlips, flipped, lastTransfer, total0, schedVars, ncall, refundVars>>

\* notifySoldOutOrders: one order of the loop, with its createNotification
NotifyOrder(r) ==
    /\ rec[r].pc = "notify"
    /\ LET rc == rec[r]
           o == rc.orders[rc.oidx]
           docs == peOrderItems[rc.pos][o]
           entries == {k \in DOMAIN docs : entryId(docs[k]) # ""}
           cache == IF DOMAIN docs = {} THEN rc.cache
                    ELSE cacheAfter(rc.cache, {entryId(docs[k]) : k \in entries}, rc.item)
           n == soldOutNotification(docs, o, cache)
       IN /\ IF DOMAIN docs # {} /\ n.emit
             THEN \E ref \in existingRefs(notifications, n.payload) :
                     notifications' = writeNotification(notifications, ref, n.payload)
             ELSE UNCHANGED notifications
          /\ rec' = [rec EXCEPT ![r] =
                       afterOrder([rc EXCEPT !.cache = cache], "notify", "markQuery")]
    /\ UNCHANGED <<pePosItems, peItems, peOrders, peOrderItems, iEvents,
                   nFlips, flipped, lastTransfer, total0, schedVars, ncall, refundVars>>

\* markItemsForCanceling: the query of the open orders of the POS
MarkQuery(r) ==
    /\ rec[r].pc = "markQuery"
    /\ rec' = [rec EXCEPT ![r] = startLoop(@, openOrdersOf(@.pos), "mark", "scan")]
    /\ UNCHANGED <<pePosItems, peItems, peOrders, peOrderItems, notifications, iEvents,
                   nFlips, flipped, lastTransfer, total0, schedVars, ncall, refundVars>>

\* markItemsForCanceling: the item documents of one order whose itemId field
\* is the flipped item get status 'marked_for_canceling'
MarkOrder(r) ==
    /\ rec[r].pc = "mark"
    /\ LET rc == rec[r]
           o == rc.orders[rc.oidx]
       IN /\ peOrderItems' = [peOrderItems EXCEPT ![rc.pos][o] =
                [k \in DOMAIN @ |->
                    IF @[k].itemId = rc.item
                    THEN [@[k] EXCEPT !.status = "marked_for_canceling"]
                    ELSE @[k]]]
          /\ rec' = [rec EXCEPT ![r] = afterOrder(rc, "mark", "scan")]
    /\ UNCHANGED <<pePosItems, peItems, peOrders, notifications, iEvents,
                   nFlips, flipped, lastTransfer, total0, schedVars, ncall, refundVars>>

\* A candidate exists: globalItemRef.set({isAvailable: true}); the first
\* candidate is the target
Keep(r) ==
    /\ rec[r].pc = "keep"
    /\ peItems' = [peItems EXCEPT ![rec[r].item] = "on"]
    /\ rec' = [rec EXCEPT ![r].pc = "transferQuery"]
    /\ UNCHANGED <<pePosItems, peOrders, peOrderItems, notifications, iEvents,
                   nFlips, flipped, lastTransfer, total0, schedVars, ncall, refundVars>>

\* transferOpenOrdersForItem: the query of the open orders of the source POS
TransferQuery(r) ==
    /\ rec[r].pc = "transferQuery"
    /\ rec' = [rec EXCEPT ![r] = startLoop(@, openOrdersOf(@.pos), "items", "scan")]
    /\ UNCHANGED <<pePosItems, peItems, peOrders, peOrderItems, notifications, iEvents,
                   nFlips, flipped, lastTransfer, total0, schedVars, ncall, refundVars>>

\* transferItemsForOrder: the item documents of the source order are read and
\* the transferable ones kept as snapshots; none ends the order.
ListItems(r) ==
    /\ rec[r].pc = "items"
    /\ LET rc == rec[r]
           o == rc.orders[rc.oidx]
           list == itemsToTransfer(peOrderItems[rc.pos][o], rc.item)
       IN rec' = [rec EXCEPT ![r] =
                    IF Len(list) = 0 THEN afterOrder(rc, "items", "scan")
                    ELSE [rc EXCEPT !.pc = "ensure", !.docs = list]]
    /\ UNCHANGED <<pePosItems, peItems, peOrders, peOrderItems, notifications, iEvents,
                   nFlips, flipped, lastTransfer, total0, schedVars, ncall, refundVars>>

\* ensureTargetOrderDocument with the data of the source order as queried (open)
EnsureTarget(r) ==
    /\ rec[r].pc = "ensure"
    /\ LET rc == rec[r]
           o == rc.orders[rc.oidx]
       IN peOrders' = [peOrders EXCEPT ![rc.target][o] =
                          ensureTargetOrderDocument(@, OpenOrder)]
    /\ rec' = [rec EXCEPT ![r].pc = "txn", ![r].didx = 1]
    /\ UNCHANGED <<pePosItems, peItems, peOrderItems, notifications, iEvents,
                   nFlips, flipped, lastTransfer, total0, schedVars, ncall, refundVars>>

\* One iteration of the loop over itemsToTransfer: the transaction reads the
\* target item document, sets it to the sanitized snapshot of the source with
\* the summed count, and deletes the source item document.
TransferItem(r) ==
    /\ rec[r].pc = "txn"
    /\ LET rc == rec[r]
           o == rc.orders[rc.oidx]
           d == rc.docs[rc.didx]
           transferCount == extractCountFromItem(d.data)
           existing == existingCount(peOrderItems[rc.target][o], d.key)
           payload == sanitizeItemData(d.data, newCount(existing, transferCount))
           without == [peOrderItems EXCEPT ![rc.pos][o] =
                          [k \in DOMAIN @ \ {d.key} |-> @[k]]]
       IN /\ peOrderItems' =
                IF transferCount <= 0 THEN without
                ELSE [without EXCEPT ![rc.target][o] =
                         [k \in DOMAIN @ \cup {d.key} |->
                             IF k = d.key THEN payload ELSE @[k]]]
          /\ lastTransfer' = [n |-> lastTransfer.n + 1, src |-> rc.pos,
                              dst |-> rc.target, order |-> o, key |-> d.key,
                              existing |-> existing, transfer |-> transferCount,
                              dsts |-> lastTransfer.dsts \cup {rc.target}]
          /\ rec' = [rec EXCEPT ![r] =
                       IF rc.didx < Len(rc.docs) THEN [rc EXCEPT !.didx = @ + 1]
                       ELSE [rc EXCEPT !.pc = "remaining"]]
    /\ UNCHANGED <<pePosItems, peItems, peOrders, notifications, iEvents,
                   nFlips, flipped, total0, schedVars, ncall, refundVars>>

\* The source order without item documents left becomes 'transferred'
Remaining(r) ==
    /\ rec[r].pc = "remaining"
    /\ LET rc == rec[r]
           o == rc.orders[rc.oidx]
       IN /\ peOrders' = IF DOMAIN peOrderItems[rc.pos][o] = {}
                         THEN [peOrders EXCEPT ![rc.pos][o] =
                                  [status |-> "transferred", transferredAt |-> TRUE]]
                         ELSE peOrders
          /\ rec' = [rec EXCEPT ![r] = afterOrder(rc, "items", "scan")]
    /\ UNCHANGED <<pePosItems, peItems, peOrderItems, notifications, iEvents,
                   nFlips, flipped, lastTransfer, total0, schedVars, ncall, refundVars>>

\* syncGlobalItemAvailability: the item document of the next POS is read; the
\* loop breaks at the first POS that has the item available.
Scan(r) ==
    /\ rec[r].pc = "scan"
    /\ LET rc == rec[r]
           flag == pePosItems[PosList[rc.scan]][rc.item]
       IN rec' = [rec EXCEPT ![r] =
                    IF scanFindsAvailable(flag)
                    THEN [rc EXCEPT !.pc = "syncWrite", !.found = TRUE]
                    ELSE IF rc.scan < Len(PosList) THEN [rc EXCEPT !.scan = @ + 1]
                    ELSE [rc EXCEPT !.pc = "syncWrite"]]
    /\ UNCHANGED <<pePosItems, peItems, peOrders, peOrderItems, notifications, iEvents,
                   nFlips, flipped, lastTransfer, total0, schedVars, ncall, refundVars>>

\* syncGlobalItemAvailability: set({isAvailable: isAvailableSomewhere}); the
\* handler returns
SyncWrite(r) ==
    /\ rec[r].pc = "syncWrite"
    /\ peItems' = [peItems EXCEPT ![rec[r].item] = IF rec[r].found THEN "on" ELSE "off"]
    /\ rec' = [rec EXCEPT ![r] = IdleReconciler]
    /\ UNCHANGED <<pePosItems, peOrders, peOrderItems, notifications, iEvents,
                   nFlips, flipped, lastTransfer, total0, schedVars, ncall, refundVars>>

-----------------------------------------------------------------------------
(* Callers of createNotification *)

Callers == 1..MaxCallers

NoPayload == [orderId |-> "", action |-> "", status |-> "", price |-> 0,
              hasTitle |-> FALSE, itemIds |-> {}]

IdleCaller ==
    [pc |-> "idle", payload |-> NoPayload, ref |-> 0, returned |-> 0,
     matches0 |-> {}, len0 |-> 0, calls |-> 0]

\* The payloads of the calls: with and without orderId and action, any
\* status, and one without title and message
Payloads ==
    { [orderId |-> o, action |-> a, status |-> s, price |-> 0, hasTitle |-> TRUE,
       itemIds |-> {}] :
        o \in {"", "o1", "o2"}, a \in {"", "refund"},
        s \in {"", "in_progress", "resolved"} }
    \cup {NoPayload}

\* createNotification is called: a payload without title or message throws
\* before any store access.  matches0 and len0 record the collection as the
\* call found it.
CallCreateNotification(c, payload) ==
    /\ ncall[c].pc \in {"idle", "done", "failed"}
    /\ \A m \in 1..(c - 1) : ncall[m].pc \notin {"idle", "done", "failed"}
    /\ ncall[c].calls < MaxCalls
    /\ ncall' = [ncall EXCEPT ![c] =
                   [pc |-> IF payload.hasTitle THEN "query" ELSE "failed",
                    payload |-> payload, ref |-> 0, returned |-> 0,
                    matches0 |-> IF payload.orderId # ""
                                 THEN existingSnapshot(notifications, payload) ELSE {},
                    len0 |-> Len(notifications),
                    calls |-> @.calls + 1]]
    /\ UNCHANGED <<schedVars, reconVars, refundVars>>

\* The query for an active notification of the same orderId and action
QueryExisting(c) ==
    /\ ncall[c].pc = "query"
    /\ \E ref \in existingRefs(notifications, ncall[c].payload) :
          ncall' = [ncall EXCEPT ![c].pc = "write", ![c].ref = ref]
    /\ UNCHANGED <<schedVars, reconVars, refundVars>>

\* The update of the document found, or the add of a new one
WriteNotification(c) ==
    /\ ncall[c].pc = "write"
    /\ notifications' = writeNotification(notifications, ncall[c].ref, ncall[c].payload)
    /\ ncall' = [ncall EXCEPT ![c].pc = "done",
                              ![c].returned = returnedId(notifications, ncall[c].ref)]
    /\ UNCHANGED <<schedVars, pePosItems, peItems, peOrders, peOrderItems, iEvents,
                   rec, nFlips, flipped, lastTransfer, total0, refundVars>>

-----------------------------------------------------------------------------
(* functions/refundHandler: onNotificationRefundUpdate (onUpdate) *)

Refunders == 1..MaxRefunders

\* The size of one 'in' query of cancelItemsInOrderCollection
chunkSize == 10

NoTotals == [main |-> Absent, pos |-> [p \in Pos |-> Absent]]

IdleRefund ==
    [pc |-> "idle", orderId |-> "", itemIds |-> <<>>, scope |-> 0, chunk |-> 0,
     sum |-> 0,
     before |-> [main |-> NoItemDocs, pos |-> [p \in Pos |-> NoItemDocs],
                 totals |-> NoTotals, refunded |-> {}]]

\* The number of iterations of the loop i = 0; i < itemIds.length; i += chunkSize
chunkCount(itemIds) == (Len(itemIds) + chunkSize - 1) \div chunkSize

\* The slice with the last id of the chunk left out
chunkWithoutLast(itemIds, c) ==
    SubSeq(itemIds, (c - 1) * chunkSize + 1, Min2(c * chunkSize, Len(itemIds)) - 1)

\* itemIds.slice(i, i + chunkSize) of iteration c (counted from 1)
chunkOf(itemIds, c) ==
    SubSeq(itemIds, (c - 1) * chunkSize + 1, Min2(c * chunkSize, Len(itemIds)))

\* set({status: 'canceled', quantity: 0}, {merge: true})
canceledItem(data) == [data EXCEPT !.status = "canceled", !.quantity = <<0>>]

\* One chunk of cancelItemsInOrderCollection: the documents of the query
\* where('itemId', 'in', chunk) are merged
cancelChunk(docs, chunk) ==
    [k \in DOMAIN docs |->
        IF docs[k].itemId # "" /\ docs[k].itemId \in SeqToSet(chunk)
        THEN canceledItem(docs[k]) ELSE docs[k]]

\* The sum of the prices of the documents not canceled, without their quantities
orderTotalUnitPrices(docs) ==
    LET keys == SetToSeq(DOMAIN docs)
    IN SumSeq([n \in 1..Len(keys) |->
                 IF docs[keys[n]].status = "canceled" THEN 0 ELSE docs[keys[n]].price])

\* recalculateOrderTotals: the sum over the documents not canceled of
\* price * (quantity ?? count ?? 0) where that quantity is positive
orderTotal(docs) ==
    LET keys == SetToSeq(DOMAIN docs)
        amount(data) ==
            LET quantity == IF data.quantity # Absent THEN data.quantity[1]
                            ELSE IF data.count # Absent THEN data.count[1]
                            ELSE 0
            IN IF data.status = "canceled" \/ quantity <= 0 THEN 0
               ELSE data.price * quantity
    IN SumSeq([n \in 1..Len(keys) |-> amount(docs[keys[n]])])

\* The field written with the sum added to its previous value
totalIncremented(previous, sum) ==
    IF previous = Absent THEN <<sum>> ELSE <<previous[1] + sum>>

\* orderRef.set({totalPrice}, {merge: true}): the field is replaced
totalSet(previous, sum) == <<sum>>

\* The item documents a scope of the handler works on: 0 is the main order,
\* j > 0 the copy of the order at the j-th POS
scopeDocs(scope, orderId) ==
    IF scope = 0 THEN peMainItems[orderId] ELSE peOrderItems[PosList[scope]][orderId]

\* cancelItemsInPosOrders: the next POS after `scope` whose order document
\* exists, 0 when there is none
nextScope(scope, orderId) ==
    LET later == {j \in (scope + 1)..Len(PosList) :
                     peOrders[PosList[j]][orderId].status # "none"}
    IN IF later = {} THEN 0 ELSE CHOOSE j \in later : \A m \in later : j <= m

\* A client writes the status of notification n; the store appends one change
\* event with the data before and after.
UpdateNotification(n, status) ==
    /\ n \in 1..Len(notifications)
    /\ nUpdates < MaxUpdates
    /\ notifications' = [notifications EXCEPT ![n].status = status]
    /\ nEvents' = nEvents \cup
           {[n |-> nUpdates + 1, before |-> notifications[n],
             after |-> [notifications[n] EXCEPT !.status = status]]}
    /\ nUpdates' = nUpdates + 1
    /\ UNCHANGED <<schedVars, pePosItems, peItems, peOrders, peOrderItems, iEvents, rec,
                   nFlips, flipped, lastTransfer, total0, ncall,
                   peMainItems, peTotals, refund, refunded>>

\* Entry of cancelItemsInOrderCollection for a scope: no ids, no query
toCancel(rf, scope) ==
    IF Len(rf.itemIds) = 0
    THEN [rf EXCEPT !.pc = "recalcRead", !.scope = scope, !.chunk = 0]
    ELSE [rf EXCEPT !.pc = "cancel", !.scope = scope, !.chunk = 1]

\* The transport delivers a change event to a free invocation; the handler
\* returns without orderId, when the status before was refund already, or
\* when the status after is not refund.
DeliverRefund(k, ev) ==
    /\ refund[k].pc \in {"idle", "done"}
    /\ \A m \in 1..(k - 1) : refund[m].pc \notin {"idle", "done"}
    /\ nEvents' = nEvents \ {ev}
    /\ refund' = [refund EXCEPT ![k] =
          IF \/ ev.after.orderId = ""
             \/ ev.before.status = "refund"
             \/ ev.after.status # "refund"
          THEN @
          ELSE toCancel([IdleRefund EXCEPT
                            !.orderId = ev.after.orderId,
                            !.itemIds = SetToSeq(ev.after.itemIds),
                            !.before = [main |-> peMainItems[ev.after.orderId],
                                        pos |-> [p \in Pos |-> peOrderItems[p][ev.after.orderId]],
                                        totals |-> peTotals[ev.after.orderId],
                                        refunded |-> refunded[ev.after.orderId]]], 0)]
    /\ UNCHANGED <<schedVars, reconVars, ncall, peMainItems, peTotals, nUpdates, refunded>>

\* One chunk of cancelItemsInOrderCollection on the scope's item documents
CancelChunk(k) ==
    /\ refund[k].pc = "cancel"
    /\ LET rf == refund[k]
           docs == cancelChunk(scopeDocs(rf.scope, rf.orderId), chunkOf(rf.itemIds, rf.chunk))
       IN /\ IF rf.scope = 0
             THEN /\ peMainItems' = [peMainItems EXCEPT ![rf.orderId] = docs]
                  /\ UNCHANGED peOrderItems
             ELSE /\ peOrderItems' = [peOrderItems EXCEPT ![PosList[rf.scope]][rf.orderId] = docs]
                  /\ UNCHANGED peMainItems
          /\ refund' = [refund EXCEPT ![k] =
                IF rf.chunk < chunkCount(rf.itemIds) THEN [rf EXCEPT !.chunk = @ + 1]
                ELSE [rf EXCEPT !.pc = "recalcRead"]]
    /\ UNCHANGED <<schedVars, pePosItems, peItems, peOrders, notifications, iEvents, rec,
                   nFlips, flipped, lastTransfer, total0, ncall,
                   peTotals, nEvents, nUpdates, refunded>>

\* recalculateOrderTotals: the item documents of the scope are read
RecalcRead(k) ==
    /\ refund[k].pc = "recalcRead"
    /\ refund' = [refund EXCEPT ![k].pc = "recalcWrite",
                                ![k].sum = orderTotal(scopeDocs(refund[k].scope,
                                                                refund[k].orderId))]
    /\ UNCHANGED <<schedVars, reconVars, ncall, peMainItems, peTotals, nEvents,
                   nUpdates, refunded>>

\* recalculateOrderTotals: totalPrice is written; then the next POS that has
\* the order, or the handler returns
RecalcWrite(k) ==
    /\ refund[k].pc = "recalcWrite"
    /\ LET rf == refund[k]
           next == nextScope(rf.scope, rf.orderId)
       IN /\ peTotals' = IF rf.scope = 0
                         THEN [peTotals EXCEPT ![rf.orderId].main = totalSet(@, rf.sum)]
                         ELSE [peTotals EXCEPT ![rf.orderId].pos[PosList[rf.scope]] =
                                  totalSet(@, rf.sum)]
          /\ IF next = 0
             THEN /\ refund' = [refund EXCEPT ![k].pc = "done"]
                  /\ refunded' = [refunded EXCEPT ![rf.orderId] = @ \cup SeqToSet(rf.itemIds)]
             ELSE /\ refund' = [refund EXCEPT ![k] = toCancel(rf, next)]
                  /\ UNCHANGED refunded
    /\ UNCHANGED <<schedVars, reconVars, ncall, peMainItems, nEvents, nUpdates>>

\* No main order items, no notification update, no refund invocation running
InitRefundIdle ==
    /\ peMainItems = [o \in OrderIds |-> NoItemDocs]
    /\ peTotals = [o \in OrderIds |-> NoTotals]
    /\ nEvents = {}
    /\ refund = [k \in Refunders |-> IdleRefund]
    /\ nUpdates = 0
    /\ refunded = [o \in OrderIds |-> {}]

-----------------------------------------------------------------------------
(* Initial states *)

\* x is carried by any set of POS (C may carry it switched off), y by B, z by none
CatalogChoices ==
    { [p \in Pos |-> [i \in ItemIds |->
          IF i = "x" THEN cx[p]
          ELSE IF i = "y" /\ p = "B" THEN "on" ELSE "absent"]] :
      cx \in { f \in [Pos -> {"absent", "on", "off"}] :
                 f["A"] # "off" /\ f["B"] # "off" } }

\* n open orders of other purchases, without item documents
OrdersWithOpen(n) ==
    [o \in OrderIds |->
        IF \E m \in 1..n : OtherOrderIds[m] = o THEN OpenOrder ELSE NoOrder]

UnpaidPurchase(sp) ==
    [exists |-> TRUE, isPaid |-> FALSE, distributed |-> FALSE, servingPointId |-> sp,
     distributionFailed |-> FALSE]

\* The order store under PosEvents left empty, no reconciler and no caller running
InitOthersIdle ==
    /\ pePosItems = [p \in Pos |-> [i \in ItemIds |-> "absent"]]
    /\ peItems = [i \in ItemIds |-> "absent"]
    /\ peOrders = [p \in Pos |-> [o \in OrderIds |-> NoOrder]]
    /\ peOrderItems = [p \in Pos |-> [o \in OrderIds |-> NoItemDocs]]
    /\ notifications = <<>>
    /\ iEvents = {}
    /\ rec = [r \in Reconcilers |-> IdleReconciler]
    /\ nFlips = 0
    /\ flipped = [p \in Pos |-> [i \in ItemIds |-> 0]]
    /\ lastTransfer = NoTransfer
    /\ total0 = [o \in OrderIds |-> NoItemDocs]
    /\ ncall = [c \in Callers |-> IdleCaller]
    /\ InitRefundIdle

InitProcesses ==
    /\ InitMailIdle
    /\ pEvents = {}
    /\ loader = IdleLoader
    /\ deliveries = 0
    /\ lastSkip = [valid |-> FALSE, beforePaid |-> FALSE, after |-> IdleInvocation.after]
    /\ orch = [k \in Invocations |-> IdleInvocation]
    /\ lastPick = NoPick
    /\ nPaid = 0
    /\ InitOthersIdle

\* The scheduler's inputs drawn from bounded sets; the event's own settings
\* (mode, serving point, POS list) vary on one fixed input.
InitSched ==
    /\ evOrderItems = [p \in Pos |-> [o \in OrderIds |-> NoItemDocs]]
    /\ \E opens \in [Pos -> 0..MaxOpenOrders] :
          evOrders = [p \in Pos |-> OrdersWithOpen(opens[p])]
    /\ evPosItems \in CatalogChoices
    /\ purchaseLines \in SeqsUpTo(LineChoices, MaxLines)
    /\ \/ /\ evPos = PosList
          /\ distributionMode = "balanced"
          /\ servingPointDoc = TRUE
          /\ purchase = UnpaidPurchase("sp1")
       \/ /\ purchaseLines = <<CanonicalItem("x", <<>>, <<>>)>>
          /\ \A p \in Pos : evPosItems[p]["x"] = "on"
          /\ \E s \in 1..4 :
                /\ evPos = IF s = 1 THEN <<>> ELSE PosList
                /\ distributionMode = IF s = 2 THEN "grouped" ELSE "balanced"
                /\ servingPointDoc = (s # 3)
                /\ purchase = UnpaidPurchase(IF s = 4 THEN "" ELSE "sp1")
    /\ InitProcesses

\* One paid transition, delivered once to one invocation
PayOnce == Pay(1)
DeliverOnce == \E ev \in pEvents : Deliver(1, ev, 1)
StepServingPoint == \E k \in Invocations : LoadServingPoint(k)
StepLoad == \E k \in Invocations : LoadPurchase(k)
StepBucket == \E k \in Invocations : BucketItem(k)
StepWrite == \E k \in Invocations : WriteBucket(k)
StepWriteFails == \E k \in Invocations : WriteBucketFails(k)
StepMark == \E k \in Invocations : MarkDistributed(k)

NextSched ==
    \/ PayOnce
    \/ DeliverOnce
    \/ StepServingPoint
    \/ StepLoad
    \/ StepBucket
    \/ StepWrite
    \/ StepWriteFails
    \/ StepMark

SpecSched == InitSched /\ [][NextSched]_vars

-----------------------------------------------------------------------------
(* Properties of the scheduler *)

IndexIn(seq, e) == CHOOSE n \in 1..Len(seq) : seq[n] = e

\* The POS of the event that carry item id i
Carriers(i) == {p \in SeqToSet(evPos) : evPosItems[p][i] # "absent"}

Routable(lines) == SelectSeq(lines, LAMBDA l : Carriers(l.id) # {})

BucketedCount(map) == SumSeq([n \in 1..Len(map) |-> Len(map[n].items)])

DocCount(doc) == IF doc.count # Absent THEN doc.count[1] ELSE 0

\* Sum of count over the item documents of order o at POS p
OrderCountAt(p, o) ==
    LET docs == evOrderItems[p][o]
        keys == SetToSeq(DOMAIN docs)
    IN SumSeq([n \in 1..Len(keys) |-> DocCount(docs[keys[n]])])

TotalCount(o) ==
    LET ps == SetToSeq(Pos)
    IN SumSeq([n \in 1..Len(ps) |-> OrderCountAt(ps[n], o)])

\* C1: the store chosen for an item carries it, has the minimum open-order
\* count (as read for that item) among the stores carrying it, is the first
\* such store in the enumeration order of the POS list, and got the item
\* appended to its bucket; no routable item is left out of the buckets.
LeastLoaded ==
    /\ lastPick.valid =>
         LET cs == Carriers(lastPick.item)
             inv == orch[lastPick.inv]
         IN /\ lastPick.store \in cs
            /\ \A q \in cs : lastPick.counts[lastPick.store] <= lastPick.counts[q]
            /\ \A q \in cs : lastPick.counts[q] = lastPick.counts[lastPick.store]
                               => IndexIn(evPos, lastPick.store) <= IndexIn(evPos, q)
            /\ inv.pc \in {"bucket", "write", "mark"} =>
                 \E n \in 1..Len(inv.map) :
                     /\ inv.map[n].store = lastPick.store
                     /\ inv.map[n].items[Len(inv.map[n].items)].id = lastPick.item
    /\ \A k \in Invocations :
         /\ orch[k].pc = "bucket" =>
              BucketedCount(orch[k].map)
                = Len(Routable(SubSeq(orch[k].items, 1, orch[k].idx - 1)))
         /\ orch[k].pc \in {"write", "mark"} =>
              BucketedCount(orch[k].map) = Len(Routable(orch[k].items))

\* C1 witness: all three POS carry the item, A is busier, B and C tie on the
\* minimum, and B was chosen.
LeastLoadedWitness ==
    /\ lastPick.valid
    /\ Carriers(lastPick.item) = Pos
    /\ lastPick.store = "B"
    /\ lastPick.counts["A"] > lastPick.counts["B"]
    /\ lastPick.counts["C"] = lastPick.counts["B"]

\* C2: after a successful distribution the counts of the purchase's item
\* documents over all POS add up to the number of line items carried by some
\* POS, and no item document is for an item that no POS carries.
Conservation ==
    \A k \in Invocations :
        orch[k].success = "success" /\ orch[k].pc \in {"mark", "done"} =>
            /\ TotalCount(PurchaseId) = Len(Routable(purchaseLines))
            /\ \A p \in Pos : \A key \in DOMAIN evOrderItems[p][PurchaseId] :
                   Carriers(evOrderItems[p][PurchaseId][key].id) # {}

\* C2 witness: a successful distribution of three line items of which one is
\* carried by no POS and two share a document.
ConservationWitness ==
    \E k \in Invocations :
        /\ orch[k].success = "success"
        /\ orch[k].pc = "done"
        /\ Len(purchaseLines) = 3
        /\ Len(Routable(purchaseLines)) = 2
        /\ TotalCount(PurchaseId) = 2
        /\ \E p \in Pos : \E key \in DOMAIN evOrderItems[p][PurchaseId] :
               DocCount(evOrderItems[p][PurchaseId][key]) = 2

SameConfiguration(a, b) ==
    /\ a.id = b.id
    /\ SeqToSet(a.selectedExtras) = SeqToSet(b.selectedExtras)
    /\ SeqToSet(a.excludedIngredients) = SeqToSet(b.excludedIngredients)

\* C3: in the bucket of one POS, the line items of one item id with the same
\* set of extras and the same set of excluded ingredients, whatever the order
\* they are listed in, are written as exactly one item document whose count is
\* the sum of their quantities.
GroupingRegardlessOfOrder ==
    \A k \in Invocations :
        orch[k].success = "success" /\ orch[k].pc \in {"mark", "done"} =>
            \A n \in 1..Len(orch[k].map) :
                LET bucket == orch[k].map[n]
                    docs == evOrderItems[bucket.store][PurchaseId]
                IN \A m \in 1..Len(bucket.items) :
                     LET a == bucket.items[m]
                         class == SelectSeq(bucket.items,
                                            LAMBDA b : SameConfiguration(a, b))
                         keys == {ItemKey(class[c]) : c \in 1..Len(class)}
                     IN /\ Cardinality(keys) = 1
                        /\ ItemKey(a) \in DOMAIN docs
                        /\ DocCount(docs[ItemKey(a)])
                             = SumSeq([c \in 1..Len(class) |-> getItemQuantity(class[c])])

-----------------------------------------------------------------------------
(* The purchase trigger under repeated payment and duplicate delivery *)

InitOrch ==
    /\ evOrderItems = [p \in Pos |-> [o \in OrderIds |-> NoItemDocs]]
    /\ \E open \in 0..MaxOpenOrders :
          evOrders = [p \in Pos |-> OrdersWithOpen(IF p = "A" THEN open ELSE 0)]
    /\ evPosItems = [p \in Pos |-> [i \in ItemIds |->
                        IF i = "x" \/ (i = "y" /\ p = "B") THEN "on" ELSE "absent"]]
    /\ purchaseLines \in { <<CanonicalItem("x", <<>>, <<>>)>>,
                           <<CanonicalItem("x", <<>>, <<>>), CanonicalItem("y", <<>>, <<"c">>)>> }
    /\ evPos = PosList
    /\ distributionMode = "balanced"
    /\ servingPointDoc = TRUE
    /\ purchase = UnpaidPurchase("sp1")
    /\ InitProcesses

\* The distributeOrder RPC: createPurchase writes the purchase document
\* (servingPointId, orderPlaced, userId, note; neither isPaid nor distributed)
\* and distributeOrderWithoutPurchase runs the scheduler on the request items
DistributeOrderRpc(k) ==
    /\ orch[k].pc = "idle"
    /\ ~purchase.exists
    /\ purchaseLines # <<>>
    /\ WritePurchase(UnpaidPurchase("sp1"))
    /\ orch' = [orch EXCEPT ![k] = [IdleInvocation EXCEPT !.pc = "load", !.rpc = TRUE]]
    /\ UNCHANGED <<evPos, evPosItems, evOrders, evOrderItems, distributionMode, loader, mailVars,
                   servingPointDoc, purchaseLines, lastPick, nPaid, deliveries, lastSkip,
                   reconVars, ncall, refundVars>>

\* The RPC returns the scheduler's result; it writes nothing to the purchase
ReturnRpc(k) ==
    /\ orch[k].pc = "mark"
    /\ orch[k].rpc
    /\ orch' = [orch EXCEPT ![k].pc = "done"]
    /\ UNCHANGED <<evPos, evPosItems, evOrders, evOrderItems, distributionMode, loader, mailVars,
                   servingPointDoc, purchase, purchaseLines, pEvents, lastPick, nPaid, deliveries, lastSkip,
                   reconVars, ncall, refundVars>>

PayAgain == Pay(MaxPaid)
\* The invocations are interchangeable: a delivery takes the first free one
FirstFree(k) == \A m \in 1..(k - 1) : orch[m].pc \notin {"idle", "done"}
DeliverAny ==
    \E k \in Invocations : \E ev \in pEvents :
        FirstFree(k) /\ Deliver(k, ev, MaxDeliveries)

NextOrch ==
    \/ PayAgain
    \/ Unpay
    \/ DeliverAny
    \/ StepServingPoint
    \/ StepLoad
    \/ StepBucket
    \/ StepWrite
    \/ StepWriteFails
    \/ StepMark

SpecOrch == InitOrch /\ [][NextOrch]_vars

\* C4: an invocation whose after-data has distributed = true returns at its
\* guards: no invocation that got past them, and so none that reads or writes
\* the store (distributed order, marker, error fields), has such after-data.
IdempotentOrchestrator ==
    \A k \in Invocations :
        orch[k].pc # "idle" => ~orch[k].after.distributed

\* C4 witness: a paid transition (before.isPaid false, after.isPaid true) of an
\* already distributed purchase was delivered and the invocation has ended.
IdempotentOrchestratorWitness ==
    /\ lastSkip.valid
    /\ lastSkip.after.distributed
    /\ lastSkip.after.isPaid
    /\ ~lastSkip.beforePaid
    /\ lastSkip.after.servingPointId # ""
    /\ TotalCount(PurchaseId) > 0

\* C5: with one paid transition, however often it is delivered and however
\* the invocations interleave, the item counts of the purchase over all POS
\* never exceed its routable line items.
AtMostOneDistribution ==
    nPaid <= 1 => TotalCount(PurchaseId) <= Len(Routable(purchaseLines))

\* C19: when the purchase has distributed = true, the invocation that wrote
\* the marker has ended with success and every POS it assigned items to has
\* the distributed order under the purchase id, open and with item documents,
\* and item documents under no other order id; while an invocation is still
\* bucketing or writing batches the marker is not set.
MarkerImpliesMaterialization ==
    /\ purchase.distributed =>
          \E k \in Invocations :
              /\ orch[k].pc = "done"
              /\ orch[k].success = "success"
              /\ \A n \in 1..Len(orch[k].map) :
                    LET p == orch[k].map[n].store
                    IN /\ evOrders[p][PurchaseId] = OpenOrder
                       /\ DOMAIN evOrderItems[p][PurchaseId] # {}
                       /\ \A o \in OrderIds \ {PurchaseId} : evOrderItems[p][o] = NoItemDocs
    /\ \A k \in Invocations :
          orch[k].pc \in {"servingPoint", "load", "bucket", "write"} => ~purchase.distributed

\* C19 witness: the marker is set and the purchase has distributed orders at
\* two POS.
MarkerImpliesMaterializationWitness ==
    /\ purchase.distributed
    /\ \E k \in Invocations :
          /\ orch[k].pc = "done"
          /\ Len(orch[k].map) >= 2
          /\ \A n \in 1..Len(orch[k].map) :
                DOMAIN evOrderItems[orch[k].map[n].store][PurchaseId] # {}

-----------------------------------------------------------------------------
(* The trigger with failing calls, repeated payments and deletion; one
   invocation at a time *)

InitTrigger ==
    /\ evOrderItems = [p \in Pos |-> [o \in OrderIds |-> NoItemDocs]]
    /\ \E open \in 0..MaxOpenOrders :
          evOrders = [p \in Pos |-> OrdersWithOpen(IF p = "A" THEN open ELSE 0)]
    /\ evPosItems = [p \in Pos |-> [i \in ItemIds |->
                        IF i = "x" \/ (i = "y" /\ p = "B") THEN "on" ELSE "absent"]]
    /\ purchaseLines \in { <<CanonicalItem("x", <<>>, <<>>)>>,
                           <<CanonicalItem("x", <<>>, <<>>), CanonicalItem("y", <<>>, <<"c">>)>> }
    /\ evPos \in {PosList, <<>>}
    /\ distributionMode \in {"balanced", "grouped"}
    /\ servingPointDoc \in BOOLEAN
    /\ purchase = UnpaidPurchase("sp1")
    /\ InitProcesses

DeliverInTurn == \E ev \in pEvents : Deliver(1, ev, MaxDeliveries)
StepReadFails == \E k \in Invocations : ReadFails(k)
StepCountReadFails == \E k \in Invocations : CountReadFails(k)

NextTrigger ==
    \/ PayAgain
    \/ Unpay
    \/ DeletePurchase
    \/ DeliverInTurn
    \/ StepServingPoint
    \/ StepLoad
    \/ StepReadFails
    \/ StepCountReadFails
    \/ StepBucket
    \/ StepWrite
    \/ StepWriteFails
    \/ StepMark

SpecTrigger == InitTrigger /\ [][NextTrigger]_vars

\* C18: when an invocation has ended with the scheduler failed (it returned
\* success = false, or an error was raised) and the purchase document exists,
\* the purchase has distributionFailed = true and is not marked distributed.
FailedDistributionRecorded ==
    \A k \in Invocations :
        /\ orch[k].pc = "done"
        /\ orch[k].success \in {"failure", "error"}
        /\ purchase.exists
        => purchase.distributionFailed /\ ~purchase.distributed

\* C24: once a run of the scheduler for the purchase has written its orders
\* and ended with success (the marker is set), the batches of a later run for
\* the same purchase and items leave the distributed orders and their item
\* documents at every POS as they are.
IdempotentMaterialization ==
    [][\A k \in Invocations :
          orch[k].pc = "write" /\ purchase.distributed =>
              /\ evOrders' = evOrders
              /\ evOrderItems' = evOrderItems]_vars

SchedulerReturned(k) == orch[k].pc \in {"mark", "done"} /\ orch[k].items # <<>>

NothingDistributed ==
    \A p \in Pos : /\ evOrders[p][PurchaseId] = NoOrder
                   /\ evOrderItems[p][PurchaseId] = NoItemDocs

\* C26: a scheduler call in which a read of an open-order count failed has
\* returned success = false without having committed a batch, and when it is
\* the first call for the purchase no distributed order or item document of
\* the purchase exists at any POS.
NoPartialDistributionOnReadFailure ==
    \A k \in Invocations :
        orch[k].error = CountReadError =>
            /\ orch[k].pc = "done"
            /\ orch[k].success = "failure"
            /\ orch[k].writes = 0
            /\ deliveries = 1 => NothingDistributed

\* C26 witness: the read failed for the second line item, after the first was
\* bucketed; no distributed order of the purchase exists.
NoPartialDistributionOnReadFailureWitness ==
    \E k \in Invocations :
        /\ orch[k].error = CountReadError
        /\ orch[k].idx = 2
        /\ Len(orch[k].map) = 1
        /\ NothingDistributed

\* C35: a scheduler call that ended in failure because the batched write for
\* one POS bucket failed has left no distributed order of the purchase at any
\* POS (stated for the first call for the purchase, so that every distributed
\* order found was written by the failed call).
AllOrNothingAcrossPos ==
    \A k \in Invocations :
        (orch[k].error = StoreError /\ deliveries = 1) => NothingDistributed

\* C21 as stated: a scheduler call in mode grouped has failed with the error
\* that the grouped mode is not implemented and no distributed order or item
\* document is written.
GroupedModeFails ==
    \A k \in Invocations :
        SchedulerReturned(k) /\ distributionMode = "grouped" =>
            /\ orch[k].success = "failure"
            /\ orch[k].error = GroupedError
            /\ NothingDistributed

\* C21 amended: the same for an event that has at least one POS; without a
\* POS the call fails as well and writes nothing, with the error of the
\* missing POS.
GroupedModeFailsWithPos ==
    \A k \in Invocations :
        SchedulerReturned(k) /\ distributionMode = "grouped" =>
            /\ orch[k].success = "failure"
            /\ orch[k].error = IF Len(evPos) > 0 THEN GroupedError ELSE NoPosError
            /\ NothingDistributed

\* C21 witness: a call in mode grouped for an event with POS has failed
GroupedModeFailsWithPosWitness ==
    \E k \in Invocations :
        /\ SchedulerReturned(k)
        /\ distributionMode = "grouped"
        /\ Len(evPos) > 0
        /\ orch[k].error = GroupedError
        /\ NothingDistributed

\* C22: when the scheduler has returned in balanced mode for an event with
\* POS, no bucket holds a line item whose id no POS carries, and the buckets
\* hold every other line item; when no line item is routable the call has
\* succeeded with no bucket and no distributed order is written.
UnroutableItemsDropped ==
    \A k \in Invocations :
        SchedulerReturned(k) /\ schedulerError(orch[k].stores, distributionMode) = ""
                             /\ orch[k].stores # <<>> =>
            /\ \A n \in 1..Len(orch[k].map) : \A m \in 1..Len(orch[k].map[n].items) :
                  orch[k].map[n].store \in Carriers(orch[k].map[n].items[m].id)
            /\ BucketedCount(orch[k].map) = Len(Routable(orch[k].items))
            /\ Routable(orch[k].items) = <<>> =>
                  /\ orch[k].success = "success"
                  /\ orch[k].map = <<>>
                  /\ NothingDistributed

\* C22 witness: a purchase with a line item that no POS carries and one that
\* a POS carries was distributed: the one is in a distributed order.
UnroutableItemsDroppedWitness ==
    \E k \in Invocations :
        /\ orch[k].pc = "done"
        /\ orch[k].success = "success"
        /\ \E n \in 1..Len(orch[k].items) : Carriers(orch[k].items[n].id) = {}
        /\ Len(orch[k].items) = 2
        /\ Len(Routable(orch[k].items)) = 1
        /\ TotalCount(PurchaseId) = 1

\* C23: every line item is put into the bucket of a POS that has an item
\* document for it whose isAvailable is not false.
OnlyToProducingPos ==
    /\ lastPick.valid => evPosItems[lastPick.store][lastPick.item] = "on"
    /\ \A k \in Invocations :
          \A n \in 1..Len(orch[k].map) : \A m \in 1..Len(orch[k].map[n].items) :
              evPosItems[orch[k].map[n].store][orch[k].map[n].items[m].id] = "on"

-----------------------------------------------------------------------------
(* The availability reconciler *)

\* The item document id and document the scheduler writes for n units of item i
SchedulerKey(i) == ItemKey(CanonicalItem(i, <<>>, <<>>))
SchedulerDoc(i, n) ==
    DistributedItemDoc([item |-> CanonicalItem(i, <<>>, <<>>), count |-> n])

\* Sum over all POS of the count of item document key of order o
KeyTotalIn(items, o, key) ==
    LET ps == SetToSeq(Pos)
    IN SumSeq([n \in 1..Len(ps) |-> existingCount(items[ps[n]][o], key)])

KeyTotal(o, key) == KeyTotalIn(peOrderItems, o, key)

OrderKeys(o) == UNION {DOMAIN peOrderItems[p][o] : p \in Pos}

\* x is on at A, on or off at B, on or missing at C; y is on at A and B.  The
\* canonical document of x is missing or on.  Order o1 is open at A with two
\* units of x and one of y as the scheduler writes them; B has no order o1 or
\* an open one holding one migrated unit of x.  B has `open` open orders
\* under the root Events.
InitAvailStore ==
    /\ \E bx \in {"on", "off"} : \E cx \in {"on", "absent"} :
          pePosItems = [p \in Pos |-> [i \in ItemIds |->
              IF i = "x" THEN (IF p = "A" THEN "on" ELSE IF p = "B" THEN bx ELSE cx)
              ELSE IF i = "y" /\ p # "C" THEN "on"
              ELSE "absent"]]
    /\ \E canon \in {"absent", "on"} :
          peItems = [i \in ItemIds |->
                        IF i = "x" THEN canon ELSE IF i = "y" THEN "on" ELSE "absent"]
    /\ \E atB \in BOOLEAN :
          /\ peOrders = [p \in Pos |-> [o \in OrderIds |->
                IF o = PurchaseId /\ (p = "A" \/ (p = "B" /\ atB))
                THEN OpenOrder ELSE NoOrder]]
          /\ peOrderItems = [p \in Pos |-> [o \in OrderIds |->
                IF o = PurchaseId /\ p = "A"
                THEN (SchedulerKey("x") :> SchedulerDoc("x", 2))
                       @@ (SchedulerKey("y") :> SchedulerDoc("y", 1))
                ELSE IF o = PurchaseId /\ p = "B" /\ atB
                THEN (SchedulerKey("x") :> sanitizeItemData(SchedulerDoc("x", 1), 1))
                ELSE NoItemDocs]]
    /\ \E open \in 0..MaxOpenOrders :
          evOrders = [p \in Pos |-> OrdersWithOpen(IF p = "B" THEN open ELSE 0)]
    /\ notifications = <<>>
    /\ iEvents = {}
    /\ rec = [r \in Reconcilers |-> IdleReconciler]
    /\ nFlips = 0
    /\ flipped = [p \in Pos |-> [i \in ItemIds |-> 0]]
    /\ lastTransfer = NoTransfer
    /\ total0 = [o \in OrderIds |-> [k \in OrderKeys(o) |-> KeyTotal(o, k)]]
    /\ ncall = [c \in Callers |-> IdleCaller]
    /\ InitRefundIdle

\* The scheduler's side is at rest
InitSchedQuiet ==
    /\ evPos = PosList
    /\ evPosItems = [p \in Pos |-> [i \in ItemIds |-> "absent"]]
    /\ evOrderItems = [p \in Pos |-> [o \in OrderIds |-> NoItemDocs]]
    /\ distributionMode = "balanced"
    /\ servingPointDoc = TRUE
    /\ purchase = UnpaidPurchase("sp1")
    /\ purchaseLines = <<>>
    /\ pEvents = {}
    /\ loader = IdleLoader
    /\ deliveries = 0
    /\ lastSkip = [valid |-> FALSE, beforePaid |-> FALSE, after |-> IdleInvocation.after]
    /\ orch = [k \in Invocations |-> IdleInvocation]
    /\ lastPick = NoPick
    /\ nPaid = 0

InitSchedIdle == InitSchedQuiet /\ InitMailIdle

InitAvail == InitAvailStore /\ InitSchedIdle

\* No change event is pending and no reconciler is running
Quiescent == iEvents = {} /\ \A r \in Reconcilers : rec[r].pc = "idle"

UpdateAny == \E p \in Pos : \E i \in ItemIds : \E flag \in {"on", "off"} :
                UpdatePosItem(p, i, flag)
UpdateWhenQuiescent == Quiescent /\ UpdateAny
DeliverItemEventAny == \E r \in Reconcilers : \E ev \in iEvents : DeliverItemEvent(r, ev)
StepReactivate == \E r \in Reconcilers : Reactivate(r)
StepCandidates == \E r \in Reconcilers : Candidates(r)
StepDisable == \E r \in Reconcilers : Disable(r)
StepNotifyQuery == \E r \in Reconcilers : NotifyQuery(r)
StepNotifyOrder == \E r \in Reconcilers : NotifyOrder(r)
StepMarkQuery == \E r \in Reconcilers : MarkQuery(r)
StepMarkOrder == \E r \in Reconcilers : MarkOrder(r)
StepKeep == \E r \in Reconcilers : Keep(r)
StepTransferQuery == \E r \in Reconcilers : TransferQuery(r)
StepListItems == \E r \in Reconcilers : ListItems(r)
StepEnsureTarget == \E r \in Reconcilers : EnsureTarget(r)
StepTransferItem == \E r \in Reconcilers : TransferItem(r)
StepRemaining == \E r \in Reconcilers : Remaining(r)
StepScan == \E r \in Reconcilers : Scan(r)
StepSyncWrite == \E r \in Reconcilers : SyncWrite(r)

ReconcilerStep ==
    \/ StepReactivate
    \/ StepCandidates
    \/ StepDisable
    \/ StepNotifyQuery
    \/ StepNotifyOrder
    \/ StepMarkQuery
    \/ StepMarkOrder
    \/ StepKeep
    \/ StepTransferQuery
    \/ StepListItems
    \/ StepEnsureTarget
    \/ StepTransferItem
    \/ StepRemaining
    \/ StepScan
    \/ StepSyncWrite

\* Every update is processed to completion before the next one is written
NextAvailSeq ==
    \/ UpdateWhenQuiescent
    \/ DeliverItemEventAny
    \/ ReconcilerStep

SpecAvailSeq == InitAvail /\ [][NextAvailSeq]_vars

\* Updates are written at any time; invocations run concurrently
NextAvail ==
    \/ UpdateAny
    \/ DeliverItemEventAny
    \/ ReconcilerStep

SpecAvail == InitAvail /\ [][NextAvail]_vars

SomePosAvailable(i) == \E p \in Pos : pePosItems[p][i] = "on"

\* The POS at which the flag of item i was flipped
FlippedAt(i) == {p \in Pos : flipped[p][i] > 0}

\* C6: with every flip processed to completion before the next, once an item
\* has been flipped and its flips are processed, the canonical isAvailable of
\* the item is true when some POS has the item with its flag not false, and
\* false otherwise.
AvailabilityReconciledSeq ==
    \A i \in ItemIds :
        Quiescent /\ FlippedAt(i) # {} =>
            peItems[i] = IF SomePosAvailable(i) THEN "on" ELSE "off"

\* C6 witness: x was flipped off everywhere, the flips are processed and the
\* canonical flag is false; no POS has x available.
AvailabilityReconciledSeqWitness ==
    /\ Quiescent
    /\ FlippedAt("x") # {}
    /\ nFlips >= 2
    /\ ~SomePosAvailable("x")
    /\ peItems["x"] = "off"

\* C7: with the flag of an item flipped at different POS (once at each) and
\* the invocations running concurrently, once all have finished the canonical
\* isAvailable of the item is true iff some POS has the item with its flag
\* not false.
AvailabilityReconciledConcurrent ==
    \A i \in ItemIds :
        /\ Cardinality(FlippedAt(i)) >= 2
        /\ \A p \in Pos : flipped[p][i] <= 1
        /\ iEvents = {}
        /\ \A r \in Reconcilers : rec[r].pc = "idle"
        => ((peItems[i] = "on") <=> SomePosAvailable(i))

\* C8: every item transaction of a migration leaves the destination document
\* of the same id with its previous count (0 if absent) plus the source count,
\* the source document deleted, and the total of that id over all POS as it
\* was.
MigrationPreservesCounts ==
    [][lastTransfer'.n # lastTransfer.n =>
         LET t == lastTransfer'
         IN /\ t.transfer = existingCount(peOrderItems[t.src][t.order], t.key)
            /\ t.key \notin DOMAIN peOrderItems'[t.src][t.order]
            /\ t.key \in DOMAIN peOrderItems'[t.dst][t.order]
            /\ extractCountFromItem(peOrderItems'[t.dst][t.order][t.key])
                 = existingCount(peOrderItems[t.dst][t.order], t.key)
                   + existingCount(peOrderItems[t.src][t.order], t.key)
            /\ KeyTotalIn(peOrderItems', t.order, t.key)
                 = KeyTotalIn(peOrderItems, t.order, t.key)]_vars

\* C8 witness: two units were migrated onto a destination document that held
\* one; it holds three and the source document is gone.
MigrationPreservesCountsWitness ==
    /\ lastTransfer.n > 0
    /\ lastTransfer.existing = 1
    /\ lastTransfer.transfer = 2
    /\ lastTransfer.key \notin DOMAIN peOrderItems[lastTransfer.src][lastTransfer.order]
    /\ existingCount(peOrderItems[lastTransfer.dst][lastTransfer.order], lastTransfer.key) = 3

\* C9: with invocations running concurrently and migrating to one and the
\* same destination POS, the total count of every item document id of an
\* order over all POS stays what it was.
MigrationSafeConcurrent ==
    Cardinality(lastTransfer.dsts) <= 1 =>
        \A o \in OrderIds : \A k \in DOMAIN total0[o] : KeyTotal(o, k) = total0[o][k]

-----------------------------------------------------------------------------
(* createNotification called one call after another *)

InitNotif ==
    /\ InitSchedIdle
    /\ evOrders = [p \in Pos |-> [o \in OrderIds |-> NoOrder]]
    /\ InitOthersIdle

CallWhenReturned ==
    \E c \in Callers : \E payload \in Payloads :
        /\ \A m \in Callers : ncall[m].pc \in {"idle", "done", "failed"}
        /\ CallCreateNotification(c, payload)
StepQueryExisting == \E c \in Callers : QueryExisting(c)
StepWriteNotification == \E c \in Callers : WriteNotification(c)

NextNotifSeq ==
    \/ CallWhenReturned
    \/ StepQueryExisting
    \/ StepWriteNotification

SpecNotifSeq == InitNotif /\ [][NextNotifSeq]_vars

ActiveNotifications(o, a) ==
    {n \in 1..Len(notifications) :
        /\ notifications[n].orderId = o
        /\ notifications[n].action = a
        /\ notifications[n].status \in {"created", "in_progress"}}

\* C10: with the calls made one after another, every present orderId and
\* every action have at most one notification with status created or
\* in_progress; a call that found such a notification has updated it and
\* returned its id, and has added no document.
NotificationDedupSeq ==
    /\ \A o \in {"o1", "o2"} : \A a \in {"", "refund"} :
          Cardinality(ActiveNotifications(o, a)) <= 1
    /\ \A c \in Callers :
          ncall[c].pc = "done" /\ ncall[c].matches0 # {} =>
              /\ ncall[c].returned \in ncall[c].matches0
              /\ Len(notifications) = ncall[c].len0
              /\ notifications[ncall[c].returned] = baseData(ncall[c].payload)

\* C10 witness: a call for an order and action that had an in_progress
\* notification has returned; the collection holds that one document, now
\* with the status of the call's payload.
NotificationDedupSeqWitness ==
    \E c \in Callers :
        /\ ncall[c].pc = "done"
        /\ ncall[c].payload.orderId = "o1"
        /\ ncall[c].payload.action = "refund"
        /\ ncall[c].payload.status = ""
        /\ ncall[c].matches0 = {1}
        /\ ncall[c].returned = 1
        /\ ncall[c].calls = 2
        /\ Len(notifications) = 1
        /\ notifications[1].status = "created"

-----------------------------------------------------------------------------
(* createNotification called concurrently *)

\* The payloads of concurrent calls: one order and action, any status
PayloadsSameOrder ==
    { [orderId |-> "o1", action |-> "refund", status |-> st, price |-> 0,
       hasTitle |-> TRUE, itemIds |-> {}] : st \in {"", "in_progress", "resolved"} }

CallAnyTime ==
    \E c \in Callers : \E payload \in PayloadsSameOrder :
        CallCreateNotification(c, payload)

NextNotif ==
    \/ CallAnyTime
    \/ StepQueryExisting
    \/ StepWriteNotification

SpecNotif == InitNotif /\ [][NextNotif]_vars

\* C11: in every reachable state, with calls for the same orderId and action
\* interleaving between their query and their write, at most one notification
\* with status created or in_progress exists for that orderId and action.
NotificationDedupConcurrent ==
    \A o \in {"o1", "o2"} : \A a \in {"", "refund"} :
        Cardinality(ActiveNotifications(o, a)) <= 1

\* An invocation for a deactivation that found no candidate store has passed
\* notifySoldOutOrders and markItemsForCanceling (no flip happens meanwhile)
PastMarking(r) ==
    /\ rec[r].pc \in {"scan", "syncWrite"}
    /\ pePosItems[rec[r].pos][rec[r].item] = "off"
    /\ Len(findCandidateStores(rec[r].pos, rec[r].item)) = 0

\* C15: when item i was switched off at POS p and no other POS has i
\* available, then after the marking the canonical isAvailable of i is false
\* and every item document for i (itemId, or id as the scheduler writes it) in
\* every open order at p has status marked_for_canceling, with the count it
\* had.
CancellationMarking ==
    \A r \in Reconcilers :
        PastMarking(r) =>
            /\ peItems[rec[r].item] = "off"
            /\ \A o \in OrderIds :
                  peOrders[rec[r].pos][o].status = "open" =>
                      \A key \in DOMAIN peOrderItems[rec[r].pos][o] :
                          LET data == peOrderItems[rec[r].pos][o][key]
                          IN entryId(data) = rec[r].item =>
                                /\ data.status = "marked_for_canceling"
                                /\ lastTransfer.n = 0 =>
                                      extractCountFromItem(data) = total0[o][key]

\* The item documents of an order that name an item (itemId, or id) which is
\* the flipped item i or has its canonical isAvailable false
SoldOutKeys(docs, i) ==
    {k \in DOMAIN docs :
        /\ entryId(docs[k]) # ""
        /\ entryId(docs[k]) = i \/ peItems[entryId(docs[k])] = "off"}

\* The sum of price times count over those documents
SoldOutSum(docs, i) ==
    LET keys == SetToSeq(SoldOutKeys(docs, i))
    IN SumSeq([n \in 1..Len(keys) |->
                 docs[keys[n]].price * extractCountFromItem(docs[keys[n]])])

MigrationMovesOnlyWhatCannotStay ==
    [][\A r \in Reconcilers :
          rec[r].pc = "txn" /\ lastTransfer'.n # lastTransfer.n =>
              LET rc == rec[r]
                  o == rc.orders[rc.oidx]
                  moved == peOrderItems[rc.pos][o] [lastTransfer'.key]
                  staying == {k \in DOMAIN peOrderItems[rc.pos][o] :
                                 /\ entryId(peOrderItems[rc.pos][o][k]) # rc.item
                                 /\ pePosItems[rc.pos][entryId(peOrderItems[rc.pos][o][k])] = "on"}
              IN /\ entryId(moved) = rc.item
                    \/ pePosItems[rc.pos][entryId(moved)] # "on"
                 /\ \A k \in staying :
                       /\ k \in DOMAIN peOrderItems'[rc.pos][o]
                       /\ peOrderItems'[rc.pos][o][k] = peOrderItems[rc.pos][o][k]
                 /\ staying # {} => peOrders'[rc.pos][o].status = "open"
                 /\ peItems'[rc.item] = "on"]_vars

-----------------------------------------------------------------------------
(* The refund handler, one notification update processed after another *)

\* An item document of the main order: itemId, quantity, price
MainItemDoc(i, n) ==
    [id |-> "", itemId |-> i, count |-> Absent, quantity |-> <<n>>,
     price |-> ItemPrice(i), name |-> ItemName(i), status |-> ""]

FillerIds == {"f01", "f02", "f03", "f04", "f05", "f06", "f07", "f08", "f09", "f10"}

\* A notification as createNotification writes it for action refund
RefundNotification(o, ids) ==
    baseData([orderId |-> o, action |-> "refund", status |-> "", price |-> 0,
              itemIds |-> ids, hasTitle |-> TRUE])

\* Notifications of order o1 naming x, x and y, x among eleven ids, or no id,
\* and one without orderId
RefundNotifications ==
    { RefundNotification(PurchaseId, {"x"}),
      RefundNotification(PurchaseId, {"x", "y"}),
      RefundNotification(PurchaseId, FillerIds \cup {"x"}),
      RefundNotification(PurchaseId, {}),
      RefundNotification("", {"x"}) }

\* The main order o1 holds two x and one y.  Its copy at A holds the two x,
\* written by the scheduler or by a migration; its copy at B holds the y,
\* written by a migration.  Two notifications exist.
InitRefund ==
    /\ InitSchedIdle
    /\ evOrders = [p \in Pos |-> [o \in OrderIds |-> NoOrder]]
    /\ pePosItems = [p \in Pos |-> [i \in ItemIds |-> "absent"]]
    /\ peItems = [i \in ItemIds |-> "absent"]
    /\ peOrders = [p \in Pos |-> [o \in OrderIds |->
                      IF o = PurchaseId /\ p # "C" THEN OpenOrder ELSE NoOrder]]
    /\ \E migrated \in BOOLEAN :
          peOrderItems = [p \in Pos |-> [o \in OrderIds |->
              IF o = PurchaseId /\ p = "A"
              THEN (SchedulerKey("x") :>
                       IF migrated THEN sanitizeItemData(SchedulerDoc("x", 2), 2)
                       ELSE SchedulerDoc("x", 2))
              ELSE IF o = PurchaseId /\ p = "B"
              THEN (SchedulerKey("y") :> sanitizeItemData(SchedulerDoc("y", 1), 1))
              ELSE NoItemDocs]]
    /\ \E a \in RefundNotifications : \E b \in RefundNotifications :
          notifications = <<a, b>>
    /\ iEvents = {}
    /\ rec = [r \in Reconcilers |-> IdleReconciler]
    /\ nFlips = 0
    /\ flipped = [p \in Pos |-> [i \in ItemIds |-> 0]]
    /\ lastTransfer = NoTransfer
    /\ total0 = [o \in OrderIds |-> NoItemDocs]
    /\ ncall = [c \in Callers |-> IdleCaller]
    /\ peMainItems = [o \in OrderIds |->
                        IF o = PurchaseId
                        THEN ("x" :> MainItemDoc("x", 2)) @@ ("y" :> MainItemDoc("y", 1))
                        ELSE NoItemDocs]
    /\ peTotals = [o \in OrderIds |->
                     IF o = PurchaseId
                     THEN [NoTotals EXCEPT !.main = <<2 * ItemPrice("x") + ItemPrice("y")>>]
                     ELSE NoTotals]
    /\ nEvents = {}
    /\ refund = [k \in Refunders |-> IdleRefund]
    /\ nUpdates = 0
    /\ refunded = [o \in OrderIds |-> {}]

NoRefundRunning == \A k \in Refunders : refund[k].pc \in {"idle", "done"}

UpdateNotificationWhenQuiet ==
    \E n \in 1..Len(notifications) : \E status \in {"refund", "resolved"} :
        /\ NoRefundRunning
        /\ nEvents = {}
        /\ UpdateNotification(n, status)
DeliverRefundAny == \E k \in Refunders : \E ev \in nEvents : DeliverRefund(k, ev)
StepCancelChunk == \E k \in Refunders : CancelChunk(k)
StepRecalcRead == \E k \in Refunders : RecalcRead(k)
StepRecalcWrite == \E k \in Refunders : RecalcWrite(k)

NextRefundSeq ==
    \/ UpdateNotificationWhenQuiet
    \/ DeliverRefundAny
    \/ StepCancelChunk
    \/ StepRecalcRead
    \/ StepRecalcWrite

SpecRefundSeq == InitRefund /\ [][NextRefundSeq]_vars

IsCanceled(data) == data.status = "canceled" /\ data.quantity = <<0>>

\* C12: a refund leaves every item document that was canceled with quantity 0
\* as it was; a refund that names items, all of them already named by a
\* completed refund of the order, leaves all item documents of the order and its totalPrice
\* fields, main and POS, as they were after that refund.
RefundMonotonicity ==
    \A k \in Refunders :
        refund[k].pc = "done" =>
            LET rf == refund[k]
                o == rf.orderId
            IN /\ \A key \in DOMAIN rf.before.main :
                     IsCanceled(rf.before.main[key]) =>
                         peMainItems[o][key] = rf.before.main[key]
               /\ \A p \in Pos : \A key \in DOMAIN rf.before.pos[p] :
                     IsCanceled(rf.before.pos[p][key]) =>
                         peOrderItems[p][o][key] = rf.before.pos[p][key]
               /\ (Len(rf.itemIds) > 0 /\ SeqToSet(rf.itemIds) \subseteq rf.before.refunded) =>
                     /\ peMainItems[o] = rf.before.main
                     /\ \A p \in Pos : peOrderItems[p][o] = rf.before.pos[p]
                     /\ peTotals[o] = rf.before.totals

\* C12 witness: a second refund naming x has completed; x was canceled with
\* quantity 0 before it and the total of the main order is still the price of
\* the one y.
RefundMonotonicityWitness ==
    \E k \in Refunders :
        /\ refund[k].pc = "done"
        /\ refund[k].itemIds = <<"x">>
        /\ "x" \in refund[k].before.refunded
        /\ IsCanceled(refund[k].before.main["x"])
        /\ IsCanceled(peMainItems[PurchaseId]["x"])
        /\ refund[k].before.totals.main = <<ItemPrice("y")>>
        /\ peTotals[PurchaseId].main = <<ItemPrice("y")>>

\* C13: after a refund of order o naming the item ids S, at every POS that has
\* an order o every item document whose item id (itemId, or id as the scheduler
\* writes it) is in S is canceled with quantity 0, and the totalPrice of that
\* POS order is the recomputed one.
RefundReachesPosCopies ==
    \A k \in Refunders :
        refund[k].pc = "done" =>
            LET rf == refund[k]
                o == rf.orderId
            IN \A p \in Pos :
                  peOrders[p][o].status # "none" =>
                      /\ \A key \in DOMAIN peOrderItems[p][o] :
                            entryId(peOrderItems[p][o][key]) \in SeqToSet(rf.itemIds) =>
                                IsCanceled(peOrderItems[p][o][key])
                      /\ peTotals[o].pos[p] = <<orderTotal(peOrderItems[p][o])>>

\* C14: after a refund of order o naming the item ids S, of any length, every
\* item document of the main order whose itemId is in S is what it was with
\* status canceled and quantity 0 merged in, and every other one is what it
\* was.
RefundOfMainOrder ==
    \A k \in Refunders :
        refund[k].pc = "done" =>
            LET rf == refund[k]
                o == rf.orderId
            IN /\ DOMAIN peMainItems[o] = DOMAIN rf.before.main
               /\ \A key \in DOMAIN rf.before.main :
                     peMainItems[o][key] =
                        IF rf.before.main[key].itemId \in SeqToSet(rf.itemIds)
                        THEN canceledItem(rf.before.main[key])
                        ELSE rf.before.main[key]

\* C14 witness: a refund naming eleven ids, processed in two chunks, has
\* completed; x, one of them, is canceled and y is as it was.
RefundOfMainOrderWitness ==
    \E k \in Refunders :
        /\ refund[k].pc = "done"
        /\ Len(refund[k].itemIds) > chunkSize
        /\ ~IsCanceled(refund[k].before.main["x"])
        /\ IsCanceled(peMainItems[PurchaseId]["x"])
        /\ peMainItems[PurchaseId]["y"] = MainItemDoc("y", 1)

\* Sum of price times quantity (quantity, or count where the document has no
\* quantity) over the item documents whose status is not canceled
NonCanceledSum(docs) ==
    LET keys == SetToSeq({k \in DOMAIN docs : docs[k].status # "canceled"})
    IN SumSeq([n \in 1..Len(keys) |->
                 docs[keys[n]].price * extractCountFromItem(docs[keys[n]])])

\* C25: after a refund of an order was processed, the totalPrice of the main
\* order and of its copy at every POS that has one is the sum of price times
\* quantity over the item documents of that order that are not canceled.
TotalRecomputed ==
    \A k \in Refunders :
        refund[k].pc = "done" =>
            LET o == refund[k].orderId
            IN /\ peTotals[o].main = <<NonCanceledSum(peMainItems[o])>>
               /\ \A p \in Pos :
                     peOrders[p][o].status # "none" =>
                         peTotals[o].pos[p] = <<NonCanceledSum(peOrderItems[p][o])>>

\* C25 witness: x of the main order was canceled and y was not; the total of
\* the main order went from 7 to the price of the one y, and the copy at B,
\* which holds the y, has the same total.
TotalRecomputedWitness ==
    \E k \in Refunders :
        /\ refund[k].pc = "done"
        /\ refund[k].before.totals.main = <<2 * ItemPrice("x") + ItemPrice("y")>>
        /\ IsCanceled(peMainItems[PurchaseId]["x"])
        /\ ~IsCanceled(peMainItems[PurchaseId]["y"])
        /\ peTotals[PurchaseId].main = <<ItemPrice("y")>>
        /\ peTotals[PurchaseId].pos["B"] = <<ItemPrice("y")>>

-----------------------------------------------------------------------------
(* loadPurchaseItems run on one purchase-item document *)

LoadPurchaseItems ==
    /\ loader.pc = "idle"
    /\ loader' = [loader EXCEPT !.pc = "done"]
    /\ purchaseLines' = loadPurchaseItems(loader.doc)
    /\ UNCHANGED <<evPos, evPosItems, evOrders, evOrderItems, distributionMode, mailVars,
                   servingPointDoc, purchase, pEvents, deliveries, orch, lastPick,
                   lastSkip, nPaid, reconVars, ncall, refundVars>>

InitNormalize ==
    /\ evPos = PosList
    /\ evPosItems = [p \in Pos |-> [i \in ItemIds |-> "absent"]]
    /\ evOrders = [p \in Pos |-> [o \in OrderIds |-> NoOrder]]
    /\ evOrderItems = [p \in Pos |-> [o \in OrderIds |-> NoItemDocs]]
    /\ distributionMode = "balanced"
    /\ servingPointDoc = TRUE
    /\ purchase = UnpaidPurchase("sp1")
    /\ purchaseLines = <<>>
    /\ \E doc \in ItemDocChoices : loader = [pc |-> "idle", doc |-> doc]
    /\ InitMailIdle
    /\ pEvents = {}
    /\ deliveries = 0
    /\ lastSkip = [valid |-> FALSE, beforePaid |-> FALSE, after |-> IdleInvocation.after]
    /\ orch = [k \in Invocations |-> IdleInvocation]
    /\ lastPick = NoPick
    /\ nPaid = 0
    /\ InitOthersIdle

NextNormalize == LoadPurchaseItems

SpecNormalize == InitNormalize /\ [][NextNormalize]_vars

\* The number of line items that carry the given extras and excluded ingredients
CountOf(lines, extras, excluded) ==
    Cardinality({ n \in 1..Len(lines) :
                    /\ lines[n].selectedExtras = extras
                    /\ lines[n].excludedIngredients = excluded })

\* The units of an entry whose quantity is a positive number
UnitsOf(entry) ==
    IF entry.quantity # Absent /\ entry.quantity[1] > 0
    THEN FloorOf(entry.quantity[1]) ELSE 0

RECURSIVE UnitsOfAll(_)
UnitsOfAll(entries) ==
    IF entries = <<>> THEN 0 ELSE UnitsOf(Head(entries)) + UnitsOfAll(Tail(entries))

\* The entries that carry the given extras and excluded ingredients, with the
\* document's own taken where an entry has none
EntriesWith(doc, extras, excluded) ==
    SelectSeq(doc.entries,
              LAMBDA entry :
                 /\ ArrayOr(entry.selectedExtras, ArrayOr(doc.selectedExtras, <<>>))
                      = extras
                 /\ ArrayOr(entry.excludedIngredients,
                            ArrayOr(doc.excludedIngredients, <<>>)) = excluded)

\* The extras and excluded ingredients a line item of the documents can carry
Flavours ==
    { <<extras, excluded>> : extras \in {<<>>, <<"b">>, <<"cheese">>},
                             excluded \in {<<>>, <<"onion">>} }

\* Q of a document whose quantity (or count) is at least one unit, else 0
WholeQuantity(doc) ==
    IF rawQuantity(doc) # Absent /\ rawQuantity(doc)[1] >= 2
    THEN FloorOf(rawQuantity(doc)[1]) ELSE 0

DocQty(doc) ==
    IF rawQuantity(doc) # Absent THEN Max2(0, FloorOf(rawQuantity(doc)[1])) ELSE 0

\* C28: a document with quantity 0 (absent, non-positive) and a non-empty
\* entries array has given exactly one line item per unit of each entry with a
\* positive quantity and no line item of the document's own, an entry without
\* a positive quantity has given none, and the default of one unit is given
\* when the quantity is 0 and there are no entries.
LegacyDefaultOnlyForEmptyEntries ==
    LET doc == loader.doc
    IN (loader.pc = "done" /\ DocQty(doc) = 0)
       => Len(purchaseLines) = IF doc.entries = <<>> THEN 1
                               ELSE UnitsOfAll(doc.entries)

-----------------------------------------------------------------------------
(* The substitute POS of a deactivation *)

\* The place of a POS in the enumeration of the POS collection
PosIndex(p) == CHOOSE n \in 1..Len(PosList) : PosList[n] = p

\* q carries item i with the POS-local flag on
Carries(q, i) == pePosItems[q][i] = "on"

-----------------------------------------------------------------------------
(* A store error within the migration of one order *)

\* A read or write of transferItemsForOrder rejects.  Neither it nor
\* transferOpenOrdersForItem nor the handler catches: the invocation ends
\* with the error at the order it was at.
TransferFails(r) ==
    /\ rec[r].pc \in {"items", "ensure", "txn", "remaining"}
    /\ rec' = [rec EXCEPT ![r].pc = "failed"]
    /\ UNCHANGED <<pePosItems, peItems, peOrders, peOrderItems, notifications, iEvents,
                   nFlips, flipped, lastTransfer, total0, schedVars, ncall, refundVars>>

StepTransferFails == \E r \in Reconcilers : TransferFails(r)

\* No change event is pending and every invocation has ended
Settled == iEvents = {} /\ \A r \in Reconcilers : rec[r].pc \in {"idle", "failed"}

UpdateWhenSettled == Settled /\ UpdateAny

\* x is on at A and B and on or missing at C.  y is on at A and B, or it is
\* sold out: off at A, carried by no other POS and off in the catalogue.
\* Orders o1 and o2 are open at A, o1 with two units of x and one of y, o2
\* with one unit of x, as the scheduler wrote it or as an earlier migration
\* and a refund of x have left it (itemId set, canceled, quantity 0).
InitAvailTwoOrders ==
    /\ \E cx \in {"on", "absent"} : \E ySoldOut \in BOOLEAN :
          /\ pePosItems = [p \in Pos |-> [i \in ItemIds |->
                IF i = "x" THEN (IF p = "C" THEN cx ELSE "on")
                ELSE IF i = "y" /\ p = "A" THEN (IF ySoldOut THEN "off" ELSE "on")
                ELSE IF i = "y" /\ p = "B" /\ ~ySoldOut THEN "on"
                ELSE "absent"]]
          /\ peItems = [i \in ItemIds |->
                IF i = "x" THEN "on"
                ELSE IF i = "y" THEN (IF ySoldOut THEN "off" ELSE "on")
                ELSE "absent"]
    /\ peOrders = [p \in Pos |-> [o \in OrderIds |->
          IF p = "A" /\ o \in {PurchaseId, OtherOrderIds[1]}
          THEN OpenOrder ELSE NoOrder]]
    /\ \E refunded2 \in BOOLEAN :
          peOrderItems = [p \in Pos |-> [o \in OrderIds |->
              IF p = "A" /\ o = PurchaseId
              THEN (SchedulerKey("x") :> SchedulerDoc("x", 2))
                     @@ (SchedulerKey("y") :> SchedulerDoc("y", 1))
              ELSE IF p = "A" /\ o = OtherOrderIds[1]
              THEN (SchedulerKey("x") :>
                      IF refunded2
                      THEN canceledItem(sanitizeItemData(SchedulerDoc("x", 1), 1))
                      ELSE SchedulerDoc("x", 1))
              ELSE NoItemDocs]]
    /\ \E open \in 0..MaxOpenOrders :
          evOrders = [p \in Pos |-> OrdersWithOpen(IF p = "B" THEN open ELSE 0)]
    /\ notifications = <<>>
    /\ iEvents = {}
    /\ rec = [r \in Reconcilers |-> IdleReconciler]
    /\ nFlips = 0
    /\ flipped = [p \in Pos |-> [i \in ItemIds |-> 0]]
    /\ lastTransfer = NoTransfer
    /\ total0 = [o \in OrderIds |-> [k \in OrderKeys(o) |-> KeyTotal(o, k)]]
    /\ ncall = [c \in Callers |-> IdleCaller]
    /\ InitRefundIdle

InitAvailFail == InitAvailTwoOrders /\ InitSchedIdle

NextAvailFail ==
    \/ UpdateWhenSettled
    \/ DeliverItemEventAny
    \/ ReconcilerStep
    \/ StepTransferFails

SpecAvailFail == InitAvailFail /\ [][NextAvailFail]_vars

\* C30: an invocation of the reconciler that has ended on a store error in
\* the migration of an open order has attempted the migration of every open
\* order it found at the POS and has run the final global availability sync.
LocalRecoveryInMigration ==
    \A r \in Reconcilers :
        rec[r].pc = "failed"
        => /\ rec[r].oidx = Len(rec[r].orders)
           /\ rec[r].scan > 0

-----------------------------------------------------------------------------
(* What a migration leaves in the source order *)

Migrating(r) == rec[r].pc \in {"items", "ensure", "txn", "remaining"}

\* An item document of another item than i whose canonical document has
\* isAvailable false
NonTransferable(data, i) == entryId(data) # i /\ peItems[entryId(data)] = "off"

\* C31: a step of a migration triggered by item i leaves every item document
\* of the source POS's orders in place and unchanged when it is of another
\* item whose canonical isAvailable is false, and sets an order of the source
\* POS to transferred only when the order has no item document left.
NonTransferableItemsStay ==
    [][\A r \in Reconcilers :
          (Migrating(r) /\ rec'[r] # rec[r])
          => \A o \in OrderIds :
                /\ \A k \in DOMAIN peOrderItems[rec[r].pos][o] :
                      NonTransferable(peOrderItems[rec[r].pos][o][k], rec[r].item)
                      => /\ k \in DOMAIN peOrderItems'[rec[r].pos][o]
                         /\ peOrderItems'[rec[r].pos][o][k]
                              = peOrderItems[rec[r].pos][o][k]
                /\ (/\ peOrders[rec[r].pos][o].status # "transferred"
                    /\ peOrders'[rec[r].pos][o].status = "transferred")
                   => DOMAIN peOrderItems'[rec[r].pos][o] = {}]_vars

\* C31 witness: the migration of x from A to B has ended; order o1 is still
\* open at A with its document of the sold-out y and without x, which is at
\* B, and order o2, which had x only, is transferred.
NonTransferableItemsStayWitness ==
    /\ \A r \in Reconcilers : rec[r].pc = "idle"
    /\ peItems["y"] = "off"
    /\ peOrders["A"][PurchaseId].status = "open"
    /\ DOMAIN peOrderItems["A"][PurchaseId] = {SchedulerKey("y")}
    /\ peOrderItems["A"][PurchaseId][SchedulerKey("y")] = SchedulerDoc("y", 1)
    /\ SchedulerKey("x") \in DOMAIN peOrderItems["B"][PurchaseId]
    /\ peOrders["A"][OtherOrderIds[1]].status = "transferred"

-----------------------------------------------------------------------------
(* The email queue: one document, the create trigger and the queue runs *)

\* A queued email as its writer creates it, a ticket email or another one,
\* with status pending or without a status field
InitMail ==
    /\ \E status \in {"", "pending"} : \E type \in {"ticket", "plain"} :
          emailDoc = [status |-> status, attempts |-> 0, type |-> type]
    /\ mailer = [k \in Mailers |-> IdleMailer]
    /\ mailLog = NoMailLog
    /\ InitSchedQuiet
    /\ evOrders = [p \in Pos |-> [o \in OrderIds |-> NoOrder]]
    /\ InitOthersIdle

StepOnEmailQueued == \E k \in Mailers : OnEmailQueued(k)
StepProcessEmailQueue == \E k \in Mailers : ProcessEmailQueue(k)
StepClaim == \E k \in Mailers : Claim(k)
StepAttach == \E k \in Mailers : Attach(k)
StepSend == \E k \in Mailers : Send(k)
StepMarkSent == \E k \in Mailers : MarkSent(k)
StepMarkFailed == \E k \in Mailers : MarkFailed(k)
StepDeadline == \E k \in Mailers : Deadline(k)

MailerStep ==
    \/ StepClaim
    \/ StepAttach
    \/ StepSend
    \/ StepMarkSent
    \/ StepMarkFailed

NextMail ==
    \/ StepOnEmailQueued
    \/ StepProcessEmailQueue
    \/ MailerStep
    \/ StepDeadline

(* The distributeOrder RPC followed by the purchase trigger *)
InitRpc ==
    /\ evOrderItems = [p \in Pos |-> [o \in OrderIds |-> NoItemDocs]]
    /\ \E open \in 0..MaxOpenOrders :
          evOrders = [p \in Pos |-> OrdersWithOpen(IF p = "A" THEN open ELSE 0)]
    /\ evPosItems = [p \in Pos |-> [i \in ItemIds |->
                        IF i = "x" \/ (i = "y" /\ p = "B") THEN "on" ELSE "absent"]]
    /\ purchaseLines \in { <<CanonicalItem("x", <<>>, <<>>)>>,
                           <<CanonicalItem("x", <<>>, <<>>), CanonicalItem("y", <<>>, <<"c">>)>> }
    /\ evPos = PosList
    /\ distributionMode \in {"balanced", "grouped"}
    /\ servingPointDoc \in BOOLEAN
    /\ purchase = DeletedPurchase
    /\ InitProcesses

\* The RPC takes the last invocation slot, the trigger deliveries the first
StepRpc == DistributeOrderRpc(MaxInvocations)
StepReturnRpc == \E k \in Invocations : ReturnRpc(k)

NextRpc ==
    \/ StepRpc
    \/ PayOnce
    \/ DeliverInTurn
    \/ StepServingPoint
    \/ StepLoad
    \/ StepBucket
    \/ StepWrite
    \/ StepMark
    \/ StepReturnRpc

SpecRpc == InitRpc /\ [][NextRpc]_vars

RpcDistributed ==
    \E j \in Invocations :
        orch[j].rpc /\ orch[j].pc = "done" /\ orch[j].success = "success"

SpecMail == InitMail /\ [][NextMail]_vars

\* The create event is delivered, every started invocation goes on until the
\* host ends it, and the scheduled run comes again and again
SpecMailFair ==
    /\ SpecMail
    /\ WF_vars(StepOnEmailQueued)
    /\ WF_vars(StepProcessEmailQueue)
    /\ WF_vars(MailerStep)

Holding(k) == mailer[k].pc \in {"attach", "send", "markSent", "markFailed"}

\* C32: an invocation for a ticket email whose attachment build failed has
\* handed the email to SMTP all the same, and when SMTP accepted it the queue
\* document has status sent.
AttachmentFailureDoesNotBlock ==
    \A k \in Mailers :
        (mailer[k].pc = "done" /\ mailer[k].attachments = "failed")
        => /\ mailer[k].smtp # "none"
           /\ mailer[k].smtp = "ok" => emailDoc.status = "sent"

\* C32 witness: the attachment build of a ticket email failed, SMTP accepted
\* the email and the document is sent.
AttachmentFailureDoesNotBlockWitness ==
    \E k \in Mailers :
        /\ mailer[k].pc = "done"
        /\ emailDoc.type = "ticket"
        /\ mailer[k].attachments = "failed"
        /\ mailer[k].smtp = "ok"
        /\ emailDoc.status = "sent"

\* C33: no step changes the status of an item document of a POS order that
\* is canceled with quantity 0; markItemsForCanceling leaves it canceled.
CanceledIsTerminal ==
    [][\A p \in Pos : \A o \in OrderIds : \A k \in DOMAIN peOrderItems[p][o] :
          (IsCanceled(peOrderItems[p][o][k]) /\ k \in DOMAIN peOrderItems'[p][o])
          => peOrderItems'[p][o][k].status = "canceled"]_vars


\* C36: for one email queue document, under any interleaving of
\* handleEmailDocument invocations (create trigger and scheduled queue run), at
\* most one invocation at a time holds the document, and it holds it in status
\* processing; an invocation whose transaction finds status processing or sent
\* ends without sending and leaves the document as it was.
EmailQueueMutualExclusion ==
    [][ /\ \A j, k \in Mailers : (Holding(j) /\ Holding(k))' => j = k
        /\ \A k \in Mailers : Holding(k)' => emailDoc'.status = "processing"
        /\ \A k \in Mailers :
              (/\ mailer[k].pc = "claim"
               /\ mailer'[k].pc # "claim"
               /\ statusOf(emailDoc) \in {"processing", "sent"})
              => /\ mailer'[k].pc = "done"
                 /\ emailDoc' = emailDoc
                 /\ mailLog'.sends = mailLog.sends
        /\ mailLog'.sends # mailLog.sends =>
              \E k \in Mailers : Holding(k) /\ mailer[k].found \notin {"processing", "sent"}
      ]_vars

\* C36 witness: one invocation holds the document after handing the email to
\* SMTP while another found it in status processing and has ended without an
\* attempt.
EmailQueueMutualExclusionWitness ==
    \E j, k \in Mailers :
        /\ mailer[j].pc = "markSent"
        /\ mailer[k].pc = "done"
        /\ mailer[k].found = "processing"
        /\ mailer[k].currentAttempts = 0
        /\ mailLog.sends = 1
        /\ emailDoc.status = "processing"

\* C37: an email queue document is attempted at most MAX_ATTEMPTS times; a
\* failure on an attempt numbered below MAX_ATTEMPTS sets status error, a
\* failure on attempt MAX_ATTEMPTS sets status failed, and processEmailQueue
\* never selects a document with status failed or sent.
EmailRetryBound ==
    [][ /\ emailDoc'.attempts <= MAX_ATTEMPTS
        /\ \A k \in Mailers :
              (mailer[k].pc = "markFailed" /\ mailer'[k].pc = "done") =>
                  emailDoc'.status = IF mailer[k].currentAttempts < MAX_ATTEMPTS
                                     THEN "error" ELSE "failed"
        /\ \A k \in Mailers :
              (/\ mailer[k].pc # "claim"
               /\ mailer'[k].pc = "claim"
               /\ mailer'[k].source = "queue")
              => statusOf(emailDoc) \notin {"failed", "sent"}
      ]_vars

\* C38: under weak fairness of the scheduled queue run (and of the steps of
\* started invocations), every email queue document eventually reaches status
\* sent or failed, also when the invocation that claimed it is ended by the
\* host deadline before it writes the final status.
EmailQueueLiveness == <>(statusOf(emailDoc) \in {"sent", "failed"})

\* C39: a distributed order written by the scheduler at POS p is the document
\* that the reconciler's open-order query for p returns, that its candidate
\* open-order count counts, and whose item documents the refund propagator
\* looks up: all components address one root collection for an event.
OneEventRoot ==
    \A p \in Pos :
        evOrders[p][PurchaseId].status = "open" =>
            /\ \E n \in DOMAIN openOrdersOf(p) : openOrdersOf(p)[n] = PurchaseId
            /\ countOpenOrdersForStore(evOrders, p) >= 1
            /\ peOrders[p][PurchaseId] = evOrders[p][PurchaseId]
            /\ peOrderItems[p][PurchaseId] = evOrderItems[p][PurchaseId]

\* C40: when an invocation that found a substitute POS for item i of POS q
\* ends its migration loop, no open order of q holds a line item of i any
\* more, whether its item document was written by the scheduler or by an
\* earlier migration.
MigratedItemsRemainMigratable ==
    [][\A r \in Reconcilers :
          (/\ rec[r].target # ""
           /\ rec[r].pc \in {"transferQuery", "items", "remaining"}
           /\ rec'[r].pc = "scan")
          => \A o \in OrderIds :
                peOrders'[rec[r].pos][o].status = "open" =>
                   \A k \in DOMAIN peOrderItems'[rec[r].pos][o] :
                      entryId(peOrderItems'[rec[r].pos][o][k]) # rec[r].item
      ]_vars

=========================================================================
